---- MODULE Spec2Model ----
(***************************************************************************)
(* A model of symvead: the dictionary codec (planner, tokenizer, Huffman   *)
(* coder, compressor, decompressor), the Dictionary and SymbolStore, the   *)
(* object store, the wire framing and the per-connection Session.          *)
(*                                                                         *)
(* Bytes are numbers 0..255, byte strings are sequences of bytes.          *)
(* SHA-256 is modelled as an injective tagging of its input (no two        *)
(* inputs collide); clock readings are one symbolic instant.               *)
(***************************************************************************)
EXTENDS Integers, Sequences, FiniteSets, TLC

VARIABLES
    dict,       \* the process-wide Dictionary (Arc<Mutex<Dictionary>>)
    symbols,    \* data/symbols/<hash>       : hash -> StoredSymbol
    usage,      \* data/symbol_usage/<hash>  : hash -> SymbolUsage
    files,      \* data/files/<key>          : key -> compressed payload
    metas,      \* data/files/<key>.meta     : key -> ObjectMetadata
    sess,       \* per connection: "opened" | "active" | "closed" | "panicked"
    chunked,    \* per connection: Session.chunked_uploads, key -> ChunkedUpload
    out,        \* per connection: the last response frame written to the socket
    inbox,      \* per connection: the frame bytes the client has put on the wire
    snapshots,  \* the dictionary_<id>.json files: <<directory, id>> -> the Dictionary saved
    uploads,    \* MetricsCollector.uploads
    call,       \* the last direct library call and what it returned
    pc,         \* per connection: where its task stands inside the handler it runs
    local,      \* per connection: the local variables of the handler it runs
    mutex,      \* global_dict, the Mutex around the Dictionary: 0 or the session holding it
    lockfiles,  \* the lock files of the data directory: name -> the FileLocks alive on it
    server,     \* the server process: "down", "serving" (in the accept loop) or "failed"
    data_dir,   \* the data root the server process was started with
    files_dir   \* the directory <root>/files by file name: name -> content (files and
                \* metas are its view by key)

\* What the tasks of the sessions hold between two of their steps, and the process they
\* run in.
tasks == <<pc, local, mutex, lockfiles, server, data_dir, files_dir>>

vars == <<dict, symbols, usage, files, metas, sess, chunked, out, inbox, snapshots, uploads, call,
          pc, local, mutex, lockfiles, server, data_dir, files_dir>>

-----------------------------------------------------------------------------
(* Bounds of the model. *)

\* Longest object a client uploads.
MaxLen == 4
\* Number of uploads the server handles in one run.
MaxUploads == 2
\* Number of compress calls in the library-level specification.
MaxCalls == 3
\* Number of consecutive freeze() calls in the library-level specification.
MaxFreezeCalls == 2
\* Largest usage_count a symbol record reaches in the symbol-store specification.
MaxStores == 3
\* Largest chunk_count of a chunked upload.
MaxChunks == 3
\* Number of ChunkStart and ChunkData frames sent in the chunked-upload specification.
MaxChunkFrames == 4
\* Number of frames written by clients in the wire-level specification.
MaxWireFrames == 3
\* Number of uploads in the specification of stored metadata.
MaxMetaUploads == 3
\* Number of add_usage calls, and the largest occurrence_count, in the usage specification.
MaxUsageCalls == 4
MaxCount == 3
MaxBootUploads == 2
MaxBootDownloads == 1
\* Length of the token sequences of the Huffman specification, and of its runs.
MaxTokens == 3
MaxRun == 12
\* Number of upload sizes above 1 MiB of the sampling specification.
MaxSizeSteps == 120
\* Number of puts of the file-name specification.
MaxPathPuts == 2
MaxDedupUploads == 2
\* The number of symbols plan_symbols keeps of one plan (1000 in planner.rs), scaled to the
\* objects of the model: no object of up to 5 bytes has more candidates.
SymbolLimit == 3

\* The bytes objects are made of ('a', 'b').
ByteVals == {97, 98}
\* Object keys ("k", "q"), as the bytes of the key string.
Keys == {<<107>>, <<113>>}
Sessions == {1, 2}

-----------------------------------------------------------------------------
(* Generic helpers. *)

None == <<"none">>

\* No frame: nothing written to, or waiting on, a socket.
NoFrame == [type |-> "None"]

EmptyMap == [x \in {} |-> x]

MapPut(f, k, v) == [x \in (DOMAIN f) \cup {k} |-> IF x = k THEN v ELSE f[x]]

MapRemove(f, k) == [x \in (DOMAIN f) \ {k} |-> f[x]]

RECURSIVE SeqsUpTo(_, _)
SeqsUpTo(S, n) ==
    IF n = 0 THEN {<<>>}
    ELSE LET shorter == SeqsUpTo(S, n - 1)
         IN  shorter \cup {Append(q, e) : q \in {r \in shorter : Len(r) = n - 1}, e \in S}

Inputs == SeqsUpTo(ByteVals, MaxLen)

\* All orders in which a HashMap may iterate over the set S.
RECURSIVE Orders(_)
Orders(S) ==
    IF S = {} THEN {<<>>}
    ELSE UNION {{<<e>> \o q : q \in Orders(S \ {e})} : e \in S}

Slice(s, from, len) == SubSeq(s, from + 1, from + len)

StartsWith(s, p) == Len(p) <= Len(s) /\ SubSeq(s, 1, Len(p)) = p

RECURSIVE Flatten(_)
Flatten(ss) == IF ss = <<>> THEN <<>> ELSE Head(ss) \o Flatten(Tail(ss))

Min(a, b) == IF a < b THEN a ELSE b

\* engine::hash::sha256
Sha256(x) == <<"sha256", x>>

\* hex::encode(&sha256(x)[..16])
Hash16(x) == <<"h16", x>>

\* u32::to_be_bytes / u32::from_be_bytes
U32BE(n) == << (n \div 16777216) % 256, (n \div 65536) % 256, (n \div 256) % 256, n % 256 >>

FromU32BE(b, off) == b[off + 1] * 16777216 + b[off + 2] * 65536 + b[off + 3] * 256 + b[off + 4]

-----------------------------------------------------------------------------
(* engine/symbols.rs, engine/planner.rs, engine/tokenizer.rs *)

\* Symbol::new
Symbol(bytes, token, gain) == [bytes |-> bytes, token |-> token, gain |-> gain, hash |-> Hash16(bytes)]

\* The sample plan_symbols counts over: a prefix for inputs over 1 MiB.
PlanSample(data) ==
    IF Len(data) > 1024 * 1024
    THEN SubSeq(data, 1, Min(Len(data) \div 20, 256 * 1024))
    ELSE data

\* The start positions the counting loop visits for substrings of length len:
\* 0 .. sample.len().saturating_sub(len) - 1.
PlanPositions(sample, len) ==
    0 .. ((IF Len(sample) >= len THEN Len(sample) - len ELSE 0) - 1)

\* freq: the substrings counted, each with its count.
PlanFreq(data, max_len) ==
    LET sample == PlanSample(data)
        lens   == 2 .. Min(max_len, 16)
        occ    == {<<len, i>> \in lens \X (0 .. Len(sample)) : i \in PlanPositions(sample, len)}
        subs   == {Slice(sample, o[2], o[1]) : o \in occ}
    IN  [s \in subs |-> Cardinality({o \in occ : Slice(sample, o[2], o[1]) = s})]

PlanGain(bytes, count) == count * Len(bytes) - count * 2

\* The loop over freq in HashMap order `order`: a fresh token, from 256, for each
\* substring of positive gain.
RECURSIVE PlanAssign(_, _, _)
PlanAssign(order, freq, token) ==
    IF order = <<>> THEN <<>>
    ELSE LET b == Head(order)
             g == PlanGain(b, freq[b])
         IN  IF g > 0
             THEN <<Symbol(b, token, g)>> \o PlanAssign(Tail(order), freq, token + 1)
             ELSE PlanAssign(Tail(order), freq, token)

\* symbols.sort_by(|a, b| b.gain.cmp(&a.gain)): a stable sort, gain descending.
RECURSIVE InsertByGain(_, _)
InsertByGain(sorted, s) ==
    IF sorted = <<>> THEN <<s>>
    ELSE IF Head(sorted).gain >= s.gain
         THEN <<Head(sorted)>> \o InsertByGain(Tail(sorted), s)
         ELSE <<s>> \o sorted

RECURSIVE SortByGain(_)
SortByGain(syms) ==
    IF syms = <<>> THEN <<>>
    ELSE InsertByGain(SortByGain(SubSeq(syms, 1, Len(syms) - 1)), syms[Len(syms)])

\* plan_symbols, for one iteration order of its HashMap: the sort by gain and the
\* truncation (`symbols.truncate(1000)`, here to SymbolLimit).
PlanSymbolsIn(data, max_len, order) ==
    LET sorted == SortByGain(PlanAssign(order, PlanFreq(data, max_len), 256))
    IN  SubSeq(sorted, 1, Min(Len(sorted), SymbolLimit))

\* plan_symbols: every list it may return.
PlanSymbols(data, max_len) ==
    {PlanSymbolsIn(data, max_len, order) : order \in Orders(DOMAIN PlanFreq(data, max_len))}

\* tokenize, over the symbols of a dictionary's encode map: greedy longest match.
RECURSIVE Tokenize(_, _)
Tokenize(input, encode) ==
    IF input = <<>> THEN <<>>
    ELSE LET matches == {b \in DOMAIN encode : Len(b) > 0 /\ StartsWith(input, b)}
         IN  IF matches = {}
             THEN <<input[1]>> \o Tokenize(Tail(input), encode)
             ELSE LET best == CHOOSE b \in matches : \A c \in matches : Len(c) <= Len(b)
                  IN  <<encode[best]>> \o Tokenize(SubSeq(input, Len(best) + 1, Len(input)), encode)

-----------------------------------------------------------------------------
(* engine/huffman.rs *)

\* freq_map of HuffmanTable::build.
TokenFreq(tokens) ==
    [t \in {tokens[i] : i \in DOMAIN tokens} |-> Cardinality({i \in DOMAIN tokens : tokens[i] = t})]

\* A heap node, kept as its frequency and the codes build_codes gives the leaves
\* below it, relative to the node.
HuffLeaf(token, freq) == [freq |-> freq, codes |-> [t \in {token} |-> <<>>]]

\* HuffmanNode { freq: left.freq + right.freq, left, right }: 0 to the left, 1 to the right.
HuffMerge(left, right) ==
    [freq  |-> left.freq + right.freq,
     codes |-> [t \in (DOMAIN left.codes) \cup (DOMAIN right.codes) |->
                   IF t \in DOMAIN left.codes THEN <<FALSE>> \o left.codes[t]
                   ELSE <<TRUE>> \o right.codes[t]]]

\* heap.pop(): a node of least frequency; which one among equals depends on the
\* order the nodes were pushed in, which is the HashMap's.
HeapPops(heap) == {n \in heap : \A m \in heap : n.freq <= m.freq}

\* The loop `while heap.len() > 1`, and build_codes on the root: every table it may end in.
RECURSIVE HuffTables(_)
HuffTables(heap) ==
    IF Cardinality(heap) = 1 THEN {n.codes : n \in heap}
    ELSE UNION {UNION {HuffTables(((heap \ {right}) \ {left}) \cup {HuffMerge(left, right)})
                       : left \in HeapPops(heap \ {right})}
                : right \in HeapPops(heap)}

\* HuffmanTable::build: every encode_table it may return.
HuffmanBuild(tokens) ==
    LET freq == TokenFreq(tokens)
    IN  IF Cardinality(DOMAIN freq) <= 1
        THEN {[t \in DOMAIN freq |-> <<FALSE>>]}
        ELSE HuffTables({HuffLeaf(t, freq[t]) : t \in DOMAIN freq})

BitVal(bits, i) == IF i <= Len(bits) /\ bits[i] THEN 1 ELSE 0

\* One output byte from up to 8 bits, the first bit the most significant.
PackByte(bits) ==
    BitVal(bits, 1) * 128 + BitVal(bits, 2) * 64 + BitVal(bits, 3) * 32 + BitVal(bits, 4) * 16
    + BitVal(bits, 5) * 8 + BitVal(bits, 6) * 4 + BitVal(bits, 7) * 2 + BitVal(bits, 8)

\* The bit-packing loop shared by HuffmanTable::encode and the table writer.
RECURSIVE PackBits(_)
PackBits(bits) ==
    IF bits = <<>> THEN <<>>
    ELSE IF Len(bits) <= 8 THEN <<PackByte(bits)>>
    ELSE <<PackByte(SubSeq(bits, 1, 8))>> \o PackBits(SubSeq(bits, 9, Len(bits)))

RECURSIVE CodeBits(_, _)
CodeBits(table, tokens) ==
    IF tokens = <<>> THEN <<>>
    ELSE (IF Head(tokens) \in DOMAIN table THEN table[Head(tokens)] ELSE <<>>)
         \o CodeBits(table, Tail(tokens))

\* HuffmanTable::encode: the count of bits in the last byte, then the packed bits.
HuffmanEncode(table, tokens) ==
    LET bits == CodeBits(table, tokens)
    IN  <<(Len(bits) % 8) % 256>> \o PackBits(bits)

\* The bits of one byte, most significant first.
ByteBits(byte) == [i \in 1 .. 8 |-> ((byte \div (2 ^ (8 - i))) % 2) = 1]

\* A decode that walks all 8 bits of the last byte too.
StreamBitsWholeBytes(bytes, last_byte_bits) ==
    Flatten([i \in DOMAIN bytes |-> ByteBits(bytes[i])])

\* The bits HuffmanTable::decode walks: 8 of every byte, last_byte_bits of the last
\* one when that is not 0.
RECURSIVE StreamBits(_, _)
StreamBits(bytes, last_byte_bits) ==
    IF bytes = <<>> THEN <<>>
    ELSE IF Len(bytes) = 1
         THEN SubSeq(ByteBits(bytes[1]), 1, IF last_byte_bits > 0 THEN Min(last_byte_bits, 8) ELSE 8)
         ELSE ByteBits(bytes[1]) \o StreamBits(Tail(bytes), last_byte_bits)

\* rebuild_tree (decompressor.rs): the tree has a node for every prefix of a code.
TreeHasNode(table, path) == \E t \in DOMAIN table : StartsWith(table[t], path)

\* The token rebuild_tree left on the node at `path` (None when it has none). Codes
\* written by build are distinct, so at most one token ends at a path.
TreeToken(table, path) ==
    IF \E t \in DOMAIN table : table[t] = path
    THEN <<CHOOSE t \in DOMAIN table : table[t] = path>>
    ELSE <<>>

\* The walk of HuffmanTable::decode from the node at `path`; .unwrap() on a missing
\* child panics.
RECURSIVE DecodeWalk(_, _, _)
DecodeWalk(table, bits, path) ==
    IF bits = <<>> THEN [panic |-> FALSE, tokens |-> <<>>]
    ELSE LET next == Append(path, Head(bits))
         IN  IF ~TreeHasNode(table, next) THEN [panic |-> TRUE, tokens |-> <<>>]
             ELSE IF TreeToken(table, next) # <<>>
                  THEN LET rest == DecodeWalk(table, Tail(bits), <<>>)
                       IN  [panic |-> rest.panic, tokens |-> TreeToken(table, next) \o rest.tokens]
                  ELSE DecodeWalk(table, Tail(bits), next)

\* HuffmanTable::decode with the decode_tree decompress rebuilds from the table.
HuffmanDecode(table, data) ==
    IF data = <<>> \/ Len(data) = 1 THEN [panic |-> FALSE, tokens |-> <<>>]
    ELSE DecodeWalk(table, StreamBits(Tail(data), data[1]), <<>>)

-----------------------------------------------------------------------------
(* storage/dictionary.rs *)

\* The one instant every clock reading is taken at.
Now == "now"

\* The data root of run(), which is also the directory the freeze handler names.
DefaultDataDir == "./data"

\* The data roots a server is started with.
DataDirs == {"./data", "/srv/symvea"}

DictName(name) == <<"name", name>>

\* Dictionary::new
NewDictionary(name) ==
    [id |-> DictName(name), encode |-> EmptyMap, decode |-> EmptyMap, frozen |-> FALSE,
     created_at |-> Now, frozen_at |-> <<>>, version |-> "symvea-engine@0.1.0"]

\* bincode::serialize(self): the fields, in declaration order.
DictSerialize(d) == <<d.id, d.encode, d.decode, d.frozen, d.created_at, d.frozen_at, d.version>>

\* Dictionary::compute_hash
ComputeHash(d) == Hash16(DictSerialize(d))

\* Dictionary::freeze: the dictionary it leaves and the id it returns.
Freeze(d) ==
    IF d.frozen THEN [dict |-> d, ret |-> ComputeHash(d)]
    ELSE LET marked == [d EXCEPT !.frozen = TRUE, !.frozen_at = <<Now>>]
             dict_id == ComputeHash(marked)
         IN  [dict |-> [marked EXCEPT !.id = dict_id], ret |-> dict_id]

-----------------------------------------------------------------------------
(* storage/symbols.rs *)

\* A store_symbol that writes a fresh record whether or not the file exists.
StoreSymbolOverwriting(syms, hash, bytes) ==
    MapPut(syms, hash,
           [hash |-> hash, bytes |-> bytes, size |-> Len(bytes), first_seen |-> Now,
            usage_count |-> 1, content_hash |-> Sha256(bytes)])

\* SymbolStore::store_symbol: the symbols directory it leaves.
StoreSymbol(syms, hash, bytes) ==
    IF hash \notin DOMAIN syms
    THEN MapPut(syms, hash,
                [hash |-> hash, bytes |-> bytes, size |-> Len(bytes), first_seen |-> Now,
                 usage_count |-> 1, content_hash |-> Sha256(bytes)])
    ELSE MapPut(syms, hash, [syms[hash] EXCEPT !.usage_count = @ + 1])

\* SymbolStore::load_symbol: Ok with the record read, or Err where the file is missing.
LoadSymbol(syms, hash) ==
    IF hash \in DOMAIN syms THEN [ok |-> TRUE, bytes |-> syms[hash].bytes, symbol |-> syms[hash]]
    ELSE [ok |-> FALSE, bytes |-> <<>>]

\* An add_usage that adds the new count to the total without taking the previous
\* count of the object out.
AddUsageAccumulating(usg, symbol_hash, object_key, symbol_bytes, occurrence_count) ==
    LET old == IF symbol_hash \in DOMAIN usg THEN usg[symbol_hash]
               ELSE [symbol_hash |-> symbol_hash, total_bytes_contributed |-> 0,
                     total_occurrences |-> 0, objects |-> EmptyMap]
        total == old.total_occurrences + occurrence_count
    IN  MapPut(usg, symbol_hash,
               [symbol_hash |-> symbol_hash,
                total_bytes_contributed |-> total * symbol_bytes,
                total_occurrences |-> total,
                objects |-> MapPut(old.objects, object_key, occurrence_count)])

\* SymbolStore::add_usage: the symbol_usage directory it leaves.
AddUsage(usg, symbol_hash, object_key, symbol_bytes, occurrence_count) ==
    LET old == IF symbol_hash \in DOMAIN usg THEN usg[symbol_hash]
               ELSE [symbol_hash |-> symbol_hash, total_bytes_contributed |-> 0,
                     total_occurrences |-> 0, objects |-> EmptyMap]
        prev_count == IF object_key \in DOMAIN old.objects THEN old.objects[object_key] ELSE 0
        total == old.total_occurrences - prev_count + occurrence_count
    IN  MapPut(usg, symbol_hash,
               [symbol_hash |-> symbol_hash,
                total_bytes_contributed |-> total * symbol_bytes,
                total_occurrences |-> total,
                objects |-> MapPut(old.objects, object_key, occurrence_count)])

-----------------------------------------------------------------------------
(* engine/compressor.rs *)

\* The candidate lists the planner may hand to compress.
CompressPlan(input) ==
    IF Len(input) > 1024 * 1024
    THEN PlanSymbols(SubSeq(input, 1, Min(Len(input) \div 10, 64 * 1024)), 16)
    ELSE PlanSymbols(input, 32)

\* dict.encode.insert(bytes, token); dict.decode.insert(token, bytes)
DictInsert(d, bytes, token) ==
    [d EXCEPT !.encode = MapPut(@, bytes, token), !.decode = MapPut(@, token, bytes)]

\* The loop `for s in symbols` of the unfrozen branch, over st = the dictionary, the
\* symbol store and the symbol_infos so far.
RECURSIVE LearnSymbols(_, _, _)
LearnSymbols(plan, st, object_key) ==
    IF plan = <<>> THEN st
    ELSE LET symbol == Symbol(Head(plan).bytes, Head(plan).token, Head(plan).gain)
         IN  LearnSymbols(Tail(plan),
                 [dict    |-> DictInsert(st.dict, symbol.bytes, symbol.token),
                  symbols |-> StoreSymbol(st.symbols, symbol.hash, symbol.bytes),
                  usage   |-> AddUsage(st.usage, symbol.hash, object_key, Len(symbol.bytes), 1),
                  infos   |-> Append(st.infos, [hash |-> symbol.hash, bytes |-> Len(symbol.bytes)])],
                 object_key)

\* The symbol_infos of the frozen branch: one entry per hash, in order of first use.
RECURSIVE UsedInfos(_, _, _)
UsedInfos(tokens, decode, infos) ==
    IF tokens = <<>> THEN infos
    ELSE IF Head(tokens) \in DOMAIN decode
         THEN LET bytes == decode[Head(tokens)]
                  seen  == \E i \in DOMAIN infos : infos[i].hash = Hash16(bytes)
              IN  UsedInfos(Tail(tokens), decode,
                            IF seen THEN infos
                            ELSE Append(infos, [hash |-> Hash16(bytes), bytes |-> Len(bytes)]))
         ELSE UsedInfos(Tail(tokens), decode, infos)

\* The loop `for (hash, count) in symbol_counts` of the frozen branch.
RECURSIVE CountUsage(_, _, _, _, _)
CountUsage(infos, tokens, decode, usg, object_key) ==
    IF infos = <<>> THEN usg
    ELSE LET count == Cardinality({i \in DOMAIN tokens :
                          tokens[i] \in DOMAIN decode /\ Hash16(decode[tokens[i]]) = Head(infos).hash})
         IN  CountUsage(Tail(infos), tokens, decode,
                        AddUsage(usg, Head(infos).hash, object_key, Head(infos).bytes, count),
                        object_key)

\* A compress that plans and learns symbols whether or not the dictionary is frozen.
LearnWhenFrozen(input, st, object_key) ==
    LearnSymbols(CHOOSE plan \in CompressPlan(input) : TRUE, st, object_key)

\* The frozen branch: usage of the symbols the input tokenizes to.
TrackUsage(input, st, object_key) ==
    LET tokens == Tokenize(input, st.dict.encode)
        infos  == UsedInfos(tokens, st.dict.decode, <<>>)
    IN  [st EXCEPT !.infos = infos,
                   !.usage = CountUsage(infos, tokens, st.dict.decode, st.usage, object_key)]

\* One entry of the serialized code table.
TableEntry(token, code) ==
    LET code_bytes == PackBits(code)
    IN  U32BE(token) \o <<Len(code) % 256, Len(code_bytes) % 256>> \o code_bytes

\* explained_bytes: the decoded length of the tokens the dictionary decodes.
RECURSIVE ExplainedBytes(_, _)
ExplainedBytes(tokens, decode) ==
    IF tokens = <<>> THEN 0
    ELSE (IF Head(tokens) \in DOMAIN decode THEN Len(decode[Head(tokens)]) ELSE 0)
         + ExplainedBytes(Tail(tokens), decode)

LiteralBytes(tokens, decode) == Cardinality({i \in DOMAIN tokens : tokens[i] \notin DOMAIN decode})

\* The tail of compress, from tokenize on, for one encode_table and one order of
\* writing it out.
CompressEmit(input, st, tokens, table, order) ==
    LET huffman_data == HuffmanEncode(table, tokens)
        explained    == ExplainedBytes(tokens, st.dict.decode)
    IN  [payload |-> U32BE(Cardinality(DOMAIN table))
                     \o Flatten([i \in DOMAIN order |-> TableEntry(order[i], table[order[i]])])
                     \o U32BE(Len(huffman_data)) \o huffman_data,
         symbol_infos |-> st.infos,
         explained_ratio |-> IF Len(input) > 0 THEN <<explained, Len(input)>> ELSE <<0, 1>>,
         token_breakdown |-> [symbol_bytes |-> explained,
                              literal_bytes |-> LiteralBytes(tokens, st.dict.decode)],
         dict |-> st.dict, symbols |-> st.symbols, usage |-> st.usage]

\* The head of compress, up to tokenize: the dictionaries and symbol stores the branch on
\* dict.frozen may leave, each with its symbol_infos.
CompressLearn(input, d, syms, usg, object_key) ==
    LET st0 == [dict |-> d, symbols |-> syms, usage |-> usg, infos |-> <<>>]
    IN  IF ~d.frozen
        THEN {LearnSymbols(plan, st0, object_key) : plan \in CompressPlan(input)}
        ELSE {TrackUsage(input, st0, object_key)}

\* The tail of compress, from tokenize on: every encode_table HuffmanTree::build may
\* give and every order its entries may be written in.
CompressTail(input, st) ==
    LET tokens == Tokenize(input, st.dict.encode)
    IN  UNION {{CompressEmit(input, st, tokens, table, order) : order \in Orders(DOMAIN table)}
               : table \in HuffmanBuild(tokens)}

\* compress(input, dict, symbol_store, object_key): every outcome, each with what it
\* returns and the dictionary and symbol store it leaves.
Compress(input, d, syms, usg, object_key) ==
    UNION {CompressTail(input, st) : st \in CompressLearn(input, d, syms, usg, object_key)}

-----------------------------------------------------------------------------
(* engine/decompressor.rs *)

\* The first code_len bits of the code bytes of a table entry.
EntryCode(code_bytes, code_len) ==
    LET bits == Flatten([i \in DOMAIN code_bytes |-> ByteBits(code_bytes[i])])
    IN  SubSeq(bits, 1, Min(code_len, Len(bits)))

\* The loop `for _ in 0..table_size`: ok is FALSE where decompress returns early.
RECURSIVE ParseTable(_, _, _, _)
ParseTable(data, offset, remaining, table) ==
    IF remaining = 0 THEN [ok |-> TRUE, offset |-> offset, table |-> table]
    ELSE IF offset + 6 > Len(data) THEN [ok |-> FALSE, offset |-> offset, table |-> table]
    ELSE LET token          == FromU32BE(data, offset)
             code_len       == data[offset + 5]
             code_bytes_len == data[offset + 6]
         IN  IF offset + 6 + code_bytes_len > Len(data)
             THEN [ok |-> FALSE, offset |-> offset, table |-> table]
             ELSE ParseTable(data, offset + 6 + code_bytes_len, remaining - 1,
                             MapPut(table, token,
                                    EntryCode(Slice(data, offset + 6, code_bytes_len), code_len)))

\* An expansion that knows literals only and drops every other token.
ExpandLiteralsOnly(tokens, decode) ==
    Flatten([i \in DOMAIN tokens |-> IF tokens[i] <= 255 THEN <<tokens[i]>> ELSE <<>>])

\* The loop `for &token in &tokens`: dictionary bytes, else a literal, else nothing.
RECURSIVE ExpandTokens(_, _)
ExpandTokens(tokens, decode) ==
    IF tokens = <<>> THEN <<>>
    ELSE (IF Head(tokens) \in DOMAIN decode THEN decode[Head(tokens)]
          ELSE IF Head(tokens) <= 255 THEN <<Head(tokens)>>
          ELSE <<>>)
         \o ExpandTokens(Tail(tokens), decode)

\* decompress(data, dict): the bytes it returns, or panic where it panics.
Decompress(data, d) ==
    LET empty == [panic |-> FALSE, bytes |-> <<>>]
    IN  IF Len(data) < 4 THEN empty
        ELSE LET parsed == ParseTable(data, 4, FromU32BE(data, 0), EmptyMap)
             IN  IF ~parsed.ok \/ parsed.offset + 4 > Len(data) THEN empty
                 ELSE LET compressed_size == FromU32BE(data, parsed.offset)
                      IN  IF parsed.offset + 4 + compressed_size > Len(data) THEN empty
                          ELSE LET decoded == HuffmanDecode(parsed.table,
                                                  Slice(data, parsed.offset + 4, compressed_size))
                               IN  [panic |-> decoded.panic,
                                    bytes |-> IF decoded.panic THEN <<>>
                                              ELSE ExpandTokens(decoded.tokens, d.decode)]

-----------------------------------------------------------------------------
(* storage/metadata.rs, storage/local.rs *)

\* ObjectMetadata::new, then the three fields handle_upload assigns.
ObjectMetadata(key, object_hash, original_hash, dict_id, original_size, compressed_size, r) ==
    [key |-> key, object_hash |-> object_hash, original_hash |-> original_hash,
     dict_id |-> dict_id, engine_version |-> "symvea-engine@0.1.0",
     original_size |-> original_size, compressed_size |-> compressed_size,
     stored_at |-> Now, user_id |-> None, codec_version |-> 1,
     symbols |-> r.symbol_infos, explained_ratio |-> r.explained_ratio,
     token_breakdown |-> r.token_breakdown]

\* A metadata file a failed write left cut short: serde_json cannot parse it.
TornMeta == [torn |-> TRUE]

\* LocalStorage::get: "none", "error" (the payload is there, its metadata is not or
\* does not parse) or "some" with the object.
StorageGet(key) ==
    IF key \notin DOMAIN files THEN [res |-> "none"]
    ELSE IF key \notin DOMAIN metas \/ metas[key] = TornMeta THEN [res |-> "error"]
    ELSE [res |-> "some", data |-> files[key], metadata |-> metas[key]]

-----------------------------------------------------------------------------
(* session.rs: the arms of Session::run and the handlers they call. Each states *)
(* every variable but inbox, call and those of tasks.                           *)

AckFrame(key, original_size, compressed_size) ==
    [type |-> "Ack", key |-> key, original_size |-> original_size, compressed_size |-> compressed_size]

DataFrame(key, data) == [type |-> "Data", key |-> key, data |-> data]

NotFoundFrame(key) == [type |-> "NotFound", key |-> key]

VerifiedFrame(key, hash_match) == [type |-> "Verified", key |-> key, hash_match |-> hash_match]

\* write_frame(&mut self.stream, frame)
WriteFrame(s, frame) == out' = [out EXCEPT ![s] = frame]

\* The session is over: run returned ("closed" on Ok, "error" on Err) or its task
\* panicked ("mismatch" for the panic! of handle_verify, "panicked" for any other);
\* the Session and its chunked uploads are dropped.
SessionEnds(s, how) ==
    /\ sess' = [sess EXCEPT ![s] = how]
    /\ chunked' = [chunked EXCEPT ![s] = EmptyMap]

\* A panic in the task of session s: with the panic strategy unwind (the default) the
\* task alone ends and the runtime goes on; with abort the process, and with it every
\* session, is gone.
PanicEnds(s, how) ==
    \/ SessionEnds(s, how)
    \/ /\ sess' = [t \in Sessions |-> IF t = s THEN how ELSE "aborted"]
       /\ chunked' = [t \in Sessions |-> EmptyMap]

\* Session::handle_upload, given the chunk table the caller leaves.
HandleUpload(s, key, data, table) ==
    \E r \in Compress(data, dict, symbols, usage, key) :
        LET dict_id == IF r.dict.frozen THEN r.dict.id ELSE DictName("mutable")
            content_hash == Sha256(data)
            meta == ObjectMetadata(key, content_hash, content_hash, dict_id,
                                   Len(data), Len(r.payload), r)
        IN  /\ dict' = r.dict
            /\ symbols' = r.symbols
            /\ usage' = r.usage
            /\ files' = MapPut(files, key, r.payload)
            /\ metas' = MapPut(metas, key, meta)
            /\ uploads' = uploads + 1
            /\ WriteFrame(s, AckFrame(key, Len(data), Len(r.payload)))
            /\ chunked' = [chunked EXCEPT ![s] = table]
            /\ UNCHANGED <<sess, snapshots>>

\* The ways LocalStorage::put fails: at create_dir_all or at the open of the payload
\* file, within the write of the payload, at the open of the metadata file, within the
\* write of the metadata.
PutFailures == {"payload_open", "payload_write", "meta_open", "meta_write"}

\* The files a put that fails leaves: fs::write creates or truncates the file, then
\* writes; a write that fails leaves the bytes written so far.
PutFails(key, payload, meta, failure) ==
    CASE failure = "payload_open" -> UNCHANGED <<files, metas>>
      [] failure = "payload_write" ->
             /\ \E n \in 0..(Len(payload) - 1) : files' = MapPut(files, key, SubSeq(payload, 1, n))
             /\ UNCHANGED metas
      [] failure = "meta_open" ->
             /\ files' = MapPut(files, key, payload)
             /\ UNCHANGED metas
      [] failure = "meta_write" ->
             /\ files' = MapPut(files, key, payload)
             /\ metas' = MapPut(metas, key, TornMeta)

\* Session::handle_upload where `self.storage.put(..).await?` returns the error: run
\* returns it and the session ends.
HandleUploadPutFails(s, key, data, failure) ==
    \E r \in Compress(data, dict, symbols, usage, key) :
        LET dict_id == IF r.dict.frozen THEN r.dict.id ELSE DictName("mutable")
            content_hash == Sha256(data)
            meta == ObjectMetadata(key, content_hash, content_hash, dict_id,
                                   Len(data), Len(r.payload), r)
        IN  /\ dict' = r.dict
            /\ symbols' = r.symbols
            /\ usage' = r.usage
            /\ PutFails(key, r.payload, meta, failure)
            /\ SessionEnds(s, "error")
            /\ UNCHANGED <<uploads, out, snapshots>>

\* Frame::Upload
OnUpload(s, key, data) == HandleUpload(s, key, data, chunked[s])

\* Session::handle_download
OnDownload(s, key) ==
    LET obj == StorageGet(key)
    IN  /\ CASE obj.res = "none" ->
                  WriteFrame(s, NotFoundFrame(key)) /\ UNCHANGED <<sess, chunked>>
             [] obj.res = "error" ->
                  SessionEnds(s, "error") /\ UNCHANGED out
             [] OTHER ->
                  LET r == Decompress(obj.data, dict)
                  IN  IF r.panic THEN PanicEnds(s, "panicked") /\ UNCHANGED out
                      ELSE WriteFrame(s, DataFrame(key, r.bytes)) /\ UNCHANGED <<sess, chunked>>
        /\ UNCHANGED <<dict, symbols, usage, files, metas, snapshots, uploads>>

\* Session::handle_verify
OnVerify(s, key) ==
    LET obj == StorageGet(key)
    IN  /\ CASE obj.res = "none" ->
                  WriteFrame(s, NotFoundFrame(key)) /\ UNCHANGED <<sess, chunked>>
             [] obj.res = "error" ->
                  SessionEnds(s, "error") /\ UNCHANGED out
             [] OTHER ->
                  LET r == Decompress(obj.data, dict)
                      hash_match == Sha256(r.bytes) = obj.metadata.original_hash
                  IN  IF r.panic THEN PanicEnds(s, "panicked") /\ UNCHANGED out
                      ELSE IF ~hash_match THEN PanicEnds(s, "mismatch") /\ UNCHANGED out
                      ELSE WriteFrame(s, VerifiedFrame(key, hash_match)) /\ UNCHANGED <<sess, chunked>>
        /\ UNCHANGED <<dict, symbols, usage, files, metas, snapshots, uploads>>

\* Frame::FreezeDictionary's save of the frozen dictionary, to the path
\* format!("{}/dictionary_{}.json", "./data", dict_id): serde_json::to_string_pretty
\* gives Ok only for maps whose keys are strings or numbers, so a Dictionary whose encode
\* map (keyed by byte sequences) has an entry gives Err and the `if let Ok` writes no file.
SaveFrozen(snaps, dict_id, d) ==
    IF DOMAIN d.encode = {} THEN MapPut(snaps, <<DefaultDataDir, dict_id>>, d) ELSE snaps

\* A FreezeDictionary that reopens a dictionary it finds frozen.
OnFreezeReopening(s) ==
    /\ IF ~dict.frozen
       THEN LET r == Freeze(dict)
            IN  /\ dict' = r.dict
                /\ snapshots' = SaveFrozen(snapshots, r.ret, r.dict)
       ELSE /\ dict' = [dict EXCEPT !.frozen = FALSE]
            /\ UNCHANGED snapshots
    /\ UNCHANGED <<symbols, usage, files, metas, uploads, sess, chunked, out>>

\* Frame::FreezeDictionary
OnFreeze(s) ==
    /\ IF ~dict.frozen
       THEN LET r == Freeze(dict)
            IN  /\ dict' = r.dict
                /\ snapshots' = SaveFrozen(snapshots, r.ret, r.dict)
       ELSE UNCHANGED <<dict, snapshots>>
    /\ UNCHANGED <<symbols, usage, files, metas, uploads, sess, chunked, out>>

\* Frame::Close
OnClose(s) ==
    /\ SessionEnds(s, "closed")
    /\ UNCHANGED <<dict, symbols, usage, files, metas, snapshots, uploads, out>>

\* total_size > MAX_FILE_SIZE as u64, with MAX_FILE_SIZE = usize::MAX: true of no u64.
FileTooLarge(total_size) == FALSE

\* Frame::ChunkStart
OnChunkStart(s, key, total_size, chunk_count) ==
    /\ IF FileTooLarge(total_size) THEN SessionEnds(s, "error")
       ELSE /\ chunked' = [chunked EXCEPT ![s] = MapPut(@, key,
                              [key |-> key, total_size |-> total_size, chunk_count |-> chunk_count,
                               received_chunks |-> EmptyMap, user_id |-> None])]
            /\ UNCHANGED sess
    /\ UNCHANGED <<dict, symbols, usage, files, metas, snapshots, uploads, out>>

\* The assembly loop of handle_chunked_complete: chunks 0 .. chunk_count-1 in order,
\* up to the first one missing.
RECURSIVE AssembleFrom(_, _)
AssembleFrom(upload, i) ==
    IF i >= upload.chunk_count THEN [ok |-> TRUE, data |-> <<>>]
    ELSE IF i \notin DOMAIN upload.received_chunks THEN [ok |-> FALSE, data |-> <<>>]
    ELSE LET rest == AssembleFrom(upload, i + 1)
         IN  [ok |-> rest.ok, data |-> upload.received_chunks[i] \o rest.data]

\* An assembly that takes the chunks from the last index down to the first.
AssembleDescending(upload) ==
    LET n == upload.chunk_count
    IN  IF \E i \in 0..(n - 1) : i \notin DOMAIN upload.received_chunks
        THEN [ok |-> FALSE, data |-> <<>>]
        ELSE [ok |-> TRUE,
              data |-> Flatten([j \in 1..n |-> upload.received_chunks[n - j]])]

Assemble(upload) == AssembleFrom(upload, 0)

\* A completion that stores whatever was assembled, whole or not.
HandleChunkedCompleteUnchecked(s, key, upload) ==
    HandleUpload(s, key, Assemble(upload).data, MapRemove(chunked[s], key))

\* Session::handle_chunked_complete, for the upload as the last ChunkData left it.
HandleChunkedComplete(s, key, upload) ==
    LET asm == Assemble(upload)
    IN  IF ~asm.ok \/ Len(asm.data) # upload.total_size
        THEN /\ SessionEnds(s, "error")
             /\ UNCHANGED <<dict, symbols, usage, files, metas, snapshots, uploads, out>>
        ELSE HandleUpload(s, key, asm.data, MapRemove(chunked[s], key))

\* A ChunkData handler that completes once at least chunk_count chunks are held.
OnChunkDataAtLeast(s, key, chunk_index, data) ==
    IF key \notin DOMAIN chunked[s]
    THEN /\ SessionEnds(s, "error")
         /\ UNCHANGED <<dict, symbols, usage, files, metas, snapshots, uploads, out>>
    ELSE LET upload == [chunked[s][key] EXCEPT !.received_chunks = MapPut(@, chunk_index, data)]
         IN  IF Cardinality(DOMAIN upload.received_chunks) >= upload.chunk_count
             THEN HandleChunkedComplete(s, key, upload)
             ELSE /\ chunked' = [chunked EXCEPT ![s] = MapPut(@, key, upload)]
                  /\ UNCHANGED <<dict, symbols, usage, files, metas, snapshots, uploads, out, sess>>

\* Frame::ChunkData
OnChunkData(s, key, chunk_index, data) ==
    IF key \notin DOMAIN chunked[s]
    THEN /\ SessionEnds(s, "error")
         /\ UNCHANGED <<dict, symbols, usage, files, metas, snapshots, uploads, out>>
    ELSE LET upload == [chunked[s][key] EXCEPT !.received_chunks = MapPut(@, chunk_index, data)]
         IN  IF Cardinality(DOMAIN upload.received_chunks) = upload.chunk_count
             THEN HandleChunkedComplete(s, key, upload)
             ELSE /\ chunked' = [chunked EXCEPT ![s] = MapPut(@, key, upload)]
                  /\ UNCHANGED <<dict, symbols, usage, files, metas, snapshots, uploads, out, sess>>

\* Frame::ChunkEnd, and a response frame received by the server: nothing happens.
OnIgnored(s) ==
    UNCHANGED <<dict, symbols, usage, files, metas, snapshots, uploads, out, sess, chunked>>

\* A handshake that takes whatever magic and version the client sends.
OnHandshakeAny(s, magic, version) ==
    /\ sess' = [sess EXCEPT ![s] = "active"]
    /\ UNCHANGED <<chunked, dict, symbols, usage, files, metas, snapshots, uploads, out>>

\* read_handshake and write_handshake at the start of Session::run.
OnHandshake(s, magic, version) ==
    /\ IF magic = <<83, 89, 77, 86>> /\ version = 1
       THEN sess' = [sess EXCEPT ![s] = "active"] /\ UNCHANGED chunked
       ELSE SessionEnds(s, "error")
    /\ UNCHANGED <<dict, symbols, usage, files, metas, snapshots, uploads, out>>

-----------------------------------------------------------------------------
(* The library-level specification: compress, decompress and freeze called on *)
(* one dictionary and one symbol store, as a caller of the engine may.        *)

\* The object key the library-level calls account usage to.
CodecKey == <<107>>

NoCall == [op |-> "none", input |-> <<>>, payload |-> <<>>, output |-> <<>>,
           panic |-> FALSE, ids |-> <<>>, n |-> 0, hash |-> <<>>, ok |-> TRUE,
           key |-> <<>>, sid |-> 0, count |-> 0, total |-> 0, wire |-> NoFrame,
           prev |-> 0, puts |-> {}, arrived |-> [s \in Sessions |-> <<>>],
           log |-> [s \in Sessions |-> <<>>], stored |-> <<>>]

\* A task that runs no handler: it waits in read_frame.
NoLocal == [key |-> <<>>, data |-> <<>>, infos |-> <<>>, payload |-> <<>>, meta |-> [key |-> <<>>],
            wire |-> NoFrame]

InitStore ==
    /\ dict = NewDictionary("global")
    /\ symbols = EmptyMap
    /\ usage = EmptyMap
    /\ files = EmptyMap
    /\ metas = EmptyMap
    /\ snapshots = EmptyMap
    /\ uploads = 0
    /\ call = NoCall
    /\ pc = [s \in Sessions |-> "idle"]
    /\ local = [s \in Sessions |-> NoLocal]
    /\ mutex = 0
    /\ lockfiles = EmptyMap
    /\ server = "serving"
    /\ data_dir = DefaultDataDir
    /\ files_dir = EmptyMap

\* No connection: the library is called directly.
InitNoSessions ==
    /\ sess = [s \in Sessions |-> "closed"]
    /\ chunked = [s \in Sessions |-> EmptyMap]
    /\ out = [s \in Sessions |-> NoFrame]
    /\ inbox = [s \in Sessions |-> NoFrame]

InitCodec == InitStore /\ InitNoSessions

\* compress(x, &mut dict, &symbol_store, key)
CompressCall(x) ==
    /\ call.n < MaxCalls
    /\ \E r \in Compress(x, dict, symbols, usage, CodecKey) :
          /\ dict' = r.dict
          /\ symbols' = r.symbols
          /\ usage' = r.usage
          /\ call' = [call EXCEPT !.op = "compress", !.input = x, !.payload = r.payload,
                                  !.output = <<>>, !.panic = FALSE, !.n = @ + 1]
    /\ UNCHANGED <<files, metas, sess, chunked, out, inbox, snapshots, uploads, tasks>>

\* decompress(payload, &dict) on what the last compress returned.
DecompressCall ==
    /\ call.op = "compress"
    /\ LET r == Decompress(call.payload, dict)
       IN  call' = [call EXCEPT !.op = "decompress", !.output = r.bytes, !.panic = r.panic]
    /\ UNCHANGED <<dict, symbols, usage, files, metas, sess, chunked, out, inbox, snapshots, uploads, tasks>>

\* dict.freeze()
FreezeCall ==
    /\ Len(call.ids) < MaxFreezeCalls
    /\ LET r == Freeze(dict)
       IN  /\ dict' = r.dict
           /\ call' = [call EXCEPT !.op = "freeze", !.ids = Append(@, r.ret)]
    /\ UNCHANGED <<symbols, usage, files, metas, sess, chunked, out, inbox, snapshots, uploads, tasks>>

NextCodec ==
    \/ \E x \in Inputs : CompressCall(x)
    \/ DecompressCall
    \/ FreezeCall

SpecCodec == InitCodec /\ [][NextCodec]_vars

FreezeTwiceSameId ==
    [][(call'.op = "freeze" /\ Len(call'.ids) = Len(call.ids) + 1 /\ Len(call.ids) >= 1)
        => (call'.ids[Len(call'.ids)] = call.ids[Len(call.ids)]
            /\ DictSerialize(dict') = DictSerialize(dict))]_vars

\* The inputs made of copies of one byte.
OneByteRepeated(x) == Len(x) >= 1 /\ \A i \in 1..Len(x) : x[i] = x[1]

\* C31: compress of n >= 1 copies of one byte with an empty unfrozen dictionary writes a
\* code table of one entry, whose code is the single bit 0 (the token stream has one
\* distinct token).
RepeatedByteHasOneToken ==
    [][(/\ call'.op = "compress" /\ call'.n = call.n + 1
        /\ ~dict.frozen /\ DOMAIN dict.encode = {}
        /\ OneByteRepeated(call'.input))
           => /\ FromU32BE(call'.payload, 0) = 1
              /\ call'.payload[9] = 1
              /\ call'.payload[10] = 1
              /\ call'.payload[11] = 0]_vars

-----------------------------------------------------------------------------
(* The symbol store called directly: store_symbol and load_symbol with any   *)
(* hash and any bytes, as its signature allows.                              *)

\* The byte strings stored: "a", "b", "ab".
SymBytes == {<<97>>, <<98>>, <<97, 98>>}

\* The hashes they are stored under: those of "a" and "b".
SymHashes == {Hash16(<<97>>), Hash16(<<98>>)}

\* symbol_store.store_symbol(h, b)
StoreSymbolCall(h, b) ==
    /\ call.n < MaxStores
    /\ symbols' = StoreSymbol(symbols, h, b)
    /\ call' = [call EXCEPT !.op = "store", !.hash = h, !.input = b, !.output = <<>>,
                            !.ok = TRUE, !.n = @ + 1]
    /\ UNCHANGED <<dict, usage, files, metas, sess, chunked, out, inbox, snapshots, uploads, tasks>>

\* symbol_store.load_symbol(h)
LoadSymbolCall(h) ==
    /\ LET r == LoadSymbol(symbols, h)
       IN  call' = [call EXCEPT !.op = "load", !.hash = h, !.input = <<>>,
                                !.output = r.bytes, !.ok = r.ok]
    /\ UNCHANGED <<dict, symbols, usage, files, metas, sess, chunked, out, inbox, snapshots, uploads, tasks>>

NextSym ==
    \/ \E h \in SymHashes, b \in SymBytes : StoreSymbolCall(h, b)
    \/ \E h \in SymHashes : LoadSymbolCall(h)

SpecSym == InitCodec /\ [][NextSym]_vars

\* C7: the first store_symbol(h, b) stores b under h; every later store_symbol(h, b')
\* leaves the bytes stored under h as they are, and load_symbol(h) returns them.
FirstStoredBytesStay ==
    [][/\ \A h \in DOMAIN symbols :
              h \in DOMAIN symbols' /\ symbols'[h].bytes = symbols[h].bytes
       /\ (call'.op = "store" /\ call'.n = call.n + 1 /\ call'.hash \notin DOMAIN symbols)
              => (call'.hash \in DOMAIN symbols' /\ symbols'[call'.hash].bytes = call'.input)
       /\ (call'.op = "load" /\ call'.hash \in DOMAIN symbols)
              => (call'.ok /\ call'.output = symbols[call'.hash].bytes)]_vars

\* A store_symbol(h, b') has gone through where h already held other bytes b.
DifferentBytesStoredAgain ==
    /\ call.op = "store"
    /\ call.hash \in DOMAIN symbols
    /\ symbols[call.hash].usage_count >= 2
    /\ symbols[call.hash].bytes # call.input

\* C28: a store_symbol for a hash whose record exists writes nothing: the record of that
\* hash is after the call exactly what it was before it.
StoreSymbolIsWriteOnce ==
    [][(call'.op = "store" /\ call'.n = call.n + 1 /\ call'.hash \in DOMAIN symbols)
           => (call'.hash \in DOMAIN symbols'
               /\ symbols'[call'.hash] = symbols[call'.hash])]_vars

-----------------------------------------------------------------------------
(* The server: connections send well-formed request frames; Session::run     *)
(* handles each frame in one step.                                           *)

\* The objects clients upload to the server: "", "aaab", "bbba".
Objects == {<<>>, <<97, 97, 97, 98>>, <<98, 98, 98, 97>>}

\* The handshakes clients open with: magic "SYMV" or "SYMX", version 1 or 2.
Magics == {<<83, 89, 77, 86>>, <<83, 89, 77, 88>>}
Versions == {1, 2}

Init ==
    /\ InitStore
    /\ sess = [s \in Sessions |-> "opened"]
    /\ chunked = [s \in Sessions |-> EmptyMap]
    /\ out = [s \in Sessions |-> NoFrame]
    /\ inbox = [s \in Sessions |-> NoFrame]

Handshake(s, magic, version) ==
    /\ sess[s] = "opened"
    /\ OnHandshake(s, magic, version)
    /\ UNCHANGED <<inbox, call, tasks>>

Upload(s, key, data) ==
    /\ sess[s] = "active"
    /\ uploads < MaxUploads
    /\ OnUpload(s, key, data)
    /\ UNCHANGED <<inbox, call, tasks>>

Download(s, key) ==
    /\ sess[s] = "active"
    /\ OnDownload(s, key)
    /\ UNCHANGED <<inbox, call, tasks>>

Verify(s, key) ==
    /\ sess[s] = "active"
    /\ OnVerify(s, key)
    /\ UNCHANGED <<inbox, call, tasks>>

FreezeDictionary(s) ==
    /\ sess[s] = "active"
    /\ OnFreeze(s)
    /\ UNCHANGED <<inbox, call, tasks>>

Next ==
    \/ \E s \in Sessions, magic \in Magics, version \in Versions : Handshake(s, magic, version)
    \/ \E s \in Sessions, key \in Keys, data \in Objects : Upload(s, key, data)
    \/ \E s \in Sessions, key \in Keys : Download(s, key)
    \/ \E s \in Sessions, key \in Keys : Verify(s, key)
    \/ \E s \in Sessions : FreezeDictionary(s)

Spec == Init /\ [][Next]_vars

\* C2: every stored object decompresses, with the global dictionary as it is now, to
\* bytes whose SHA-256 is the original_hash of its metadata, so that a Download of
\* its key returns the bytes of the latest acknowledged Upload of that key.
StoredObjectsDecodeToOriginal ==
    \A k \in DOMAIN metas :
        /\ k \in DOMAIN files
        /\ LET r == Decompress(files[k], dict)
           IN  ~r.panic /\ Sha256(r.bytes) = metas[k].original_hash

\* C3: decode[t] = b for every (b, t) of the encode map of the global dictionary, and
\* no two byte sequences of encode share a token.
EncodeDecodeInverse ==
    /\ \A b \in DOMAIN dict.encode :
           dict.encode[b] \in DOMAIN dict.decode /\ dict.decode[dict.encode[b]] = b
    /\ \A b1, b2 \in DOMAIN dict.encode : dict.encode[b1] = dict.encode[b2] => b1 = b2

\* C6: an upload handled while the dictionary is frozen leaves the set of symbol
\* records as it was, and the metadata it writes carries the id of the frozen
\* dictionary as dict_id.
UploadAfterFreeze ==
    [][(dict.frozen /\ uploads' = uploads + 1)
        => /\ DOMAIN symbols' = DOMAIN symbols
           /\ \A k \in DOMAIN symbols : symbols'[k].bytes = symbols[k].bytes
           /\ \E k \in DOMAIN metas' : metas'[k].dict_id = dict.id
           /\ \A k \in DOMAIN metas' :
                  (k \notin DOMAIN metas \/ metas'[k] # metas[k]) => metas'[k].dict_id = dict.id]_vars

\* An object uploaded after the freeze, made of a symbol of the frozen dictionary.
UploadAfterFreezeSeen ==
    /\ dict.frozen
    /\ \E k \in DOMAIN metas : metas[k].dict_id = dict.id /\ metas[k].symbols # <<>>

\* C10: once handle_verify has found a hash mismatch on some connection, no
\* connection is sent a frame any more.
NoServiceAfterMismatch ==
    [][(\E s \in Sessions : sess[s] = "mismatch") => out' = out]_vars

-----------------------------------------------------------------------------
(* A server new to the world: one upload, of any input, then downloads and   *)
(* verifies of it.                                                            *)

\* The first Upload frame the server handles.
FirstUpload(s, key, data) ==
    /\ sess[s] = "active"
    /\ uploads = 0
    /\ OnUpload(s, key, data)
    /\ call' = [call EXCEPT !.op = "upload", !.key = key, !.input = data]
    /\ UNCHANGED <<inbox, tasks>>

NextFirst ==
    \/ \E s \in Sessions, magic \in Magics, version \in Versions : Handshake(s, magic, version)
    \/ \E s \in Sessions, key \in Keys, data \in Inputs : FirstUpload(s, key, data)
    \/ \E s \in Sessions, key \in Keys : Download(s, key)
    \/ \E s \in Sessions, key \in Keys : Verify(s, key)

SpecFirst == Init /\ [][NextFirst]_vars

\* C4: after the first upload, of x under k, the stored payload decompresses with the
\* dictionary that upload left to x; every Data frame sent carries x, every Verified
\* frame carries hash_match = 1, and no Verify ends in a mismatch.
FirstUploadRoundTrips ==
    call.op = "upload" =>
        /\ call.key \in DOMAIN files
        /\ Decompress(files[call.key], dict) = [panic |-> FALSE, bytes |-> call.input]
        /\ \A s \in Sessions :
               /\ sess[s] \notin {"mismatch", "panicked", "aborted"}
               /\ out[s].type = "Data" => (out[s].key = call.key /\ out[s].data = call.input)
               /\ out[s].type = "Verified" => (out[s].key = call.key /\ out[s].hash_match)

\* A first upload of MaxLen bytes that taught the dictionary a symbol has been
\* downloaded on one connection and verified on another.
FirstUploadServed ==
    /\ call.op = "upload"
    /\ Len(call.input) = MaxLen
    /\ metas[call.key].symbols # <<>>
    /\ \E s1, s2 \in Sessions : out[s1].type = "Data" /\ out[s2].type = "Verified"

-----------------------------------------------------------------------------
(* Chunked uploads: ChunkStart and ChunkData frames in any order, the frames  *)
(* sent for the upload last started kept in call.ids as <<chunk_index, data>>. *)

\* The chunk contents sent: "a", "aa", "ab".
ChunkContents == {<<97>>, <<97, 97>>, <<97, 98>>}

\* The total_size values announced: sizes Vec::with_capacity can reserve.
TotalSizes == {3, 4}

ChunkStart(s, key, total_size, chunk_count) ==
    /\ sess[s] = "active"
    /\ call.n < MaxChunkFrames
    /\ OnChunkStart(s, key, total_size, chunk_count)
    /\ call' = [call EXCEPT !.op = "start", !.sid = s, !.key = key, !.total = total_size,
                            !.count = chunk_count, !.ids = <<>>, !.n = @ + 1]
    /\ UNCHANGED <<inbox, tasks>>

ChunkData(s, key, chunk_index, data) ==
    /\ sess[s] = "active"
    /\ call.n < MaxChunkFrames
    /\ OnChunkData(s, key, chunk_index, data)
    /\ call' = [call EXCEPT !.op = IF uploads' = uploads + 1 THEN "stored" ELSE "chunk",
                            !.ids = IF s = call.sid /\ key = call.key
                                    THEN Append(@, <<chunk_index, data>>) ELSE @,
                            !.wire = [type |-> "ChunkData", sid |-> s, key |-> key,
                                      chunk_index |-> chunk_index, data |-> data],
                            !.n = @ + 1]
    /\ UNCHANGED <<inbox, tasks>>

NextChunk ==
    \/ \E s \in Sessions, magic \in Magics, version \in Versions : Handshake(s, magic, version)
    \/ \E s \in Sessions, key \in Keys, total_size \in TotalSizes, chunk_count \in 1..MaxChunks :
           ChunkStart(s, key, total_size, chunk_count)
    \/ \E s \in Sessions, key \in Keys, chunk_index \in 0..(MaxChunks - 1), data \in ChunkContents :
           ChunkData(s, key, chunk_index, data)

SpecChunk == Init /\ [][NextChunk]_vars

\* The data of the frames of log, lowest chunk_index first.
InIndexOrder(log) ==
    Flatten([j \in 1..Len(log) |-> log[CHOOSE i \in DOMAIN log : log[i][1] = j - 1][2]])

\* log holds one frame for each chunk_index of 0 .. count-1 and no other.
EachIndexOnce(log, count) ==
    /\ Len(log) = count
    /\ {log[i][1] : i \in DOMAIN log} = 0..(count - 1)

\* C9: when the last of the ChunkData frames for the indices 0 .. chunk_count-1 of an
\* upload arrives, each index sent once and in whatever order, and total_size is the
\* sum of their lengths, the object stored under the key is the compression of the
\* chunks concatenated in increasing index order.
ChunksStoredInIndexOrder ==
    [][(/\ call'.n = call.n + 1
        /\ call'.op \in {"chunk", "stored"}
        /\ Len(call'.ids) = Len(call.ids) + 1
        /\ EachIndexOnce(call'.ids, call.count)
        /\ Len(InIndexOrder(call'.ids)) = call.total)
        => LET data == InIndexOrder(call'.ids)
           IN  /\ uploads' = uploads + 1
               /\ call.key \in DOMAIN metas' /\ call.key \in DOMAIN files'
               /\ metas'[call.key].original_hash = Sha256(data)
               /\ metas'[call.key].original_size = Len(data)
               /\ \E r \in Compress(data, dict, symbols, usage, call.key) :
                      files'[call.key] = r.payload]_vars

\* An upload has been stored whose chunks arrived with a higher index before a lower.
ChunksArrivedOutOfOrder ==
    /\ call.op = "stored"
    /\ EachIndexOnce(call.ids, call.count)
    /\ call.count = MaxChunks
    /\ \E i, j \in DOMAIN call.ids : i < j /\ call.ids[i][1] > call.ids[j][1]
    /\ \E i, j \in DOMAIN call.ids : call.ids[i][2] # call.ids[j][2]
    /\ metas[call.key].original_size = call.total


\* The bytes held in a table of received chunks.
ChunkBytes(received_chunks) ==
    LET RECURSIVE Sum(_)
        Sum(S) == IF S = {} THEN 0
                  ELSE LET i == CHOOSE x \in S : TRUE
                       IN  Len(received_chunks[i]) + Sum(S \ {i})
    IN  Sum(DOMAIN received_chunks)

max_file_size == 3

\* C24: a chunked upload whose ChunkStart announces more than the configured
\* max_file_size ends the session with an error and stores nothing.
OversizeUploadRefused ==
    [][(call'.n = call.n + 1 /\ call'.op = "start" /\ call'.total > max_file_size)
          => /\ sess'[call'.sid] = "error"
             /\ <<dict, symbols, usage, files, metas, snapshots, uploads>>'
                    = <<dict, symbols, usage, files, metas, snapshots, uploads>>]_vars
-----------------------------------------------------------------------------
(* protocol/frame.rs, utils/crc.rs: frames on the wire. A frame in flight is  *)
(* the fields of its 12-byte header, the number of header bytes that arrived, *)
(* the payload bytes that arrived, and whether the stream ended after them.   *)

\* utils::crc::crc32, kept symbolic: equal payloads have equal checksums, and no two
\* payloads of this model share one.
Crc32(payload) == <<"crc32", payload>>

\* u64::to_be_bytes / u64::from_be_bytes, for the values below 2^32 this model sends.
U64BE(n) == <<0, 0, 0, 0>> \o U32BE(n)

FromU64BE(b, off) == FromU32BE(b, off + 4)

\* String::from_utf8 succeeds: the model sends single-byte characters only.
Utf8(bytes) == \A i \in DOMAIN bytes : bytes[i] < 128

\* The tail of write_frame: the header around a payload, all of it sent.
WireOf(frame_type, payload) ==
    [type |-> "Wire", frame_type |-> frame_type, flags |-> 0, header_len |-> 12,
     payload_len |-> Len(payload), checksum |-> Crc32(payload),
     header_read |-> 12, payload |-> payload, eof |-> FALSE]

\* write_frame, as the client calls it.
EncodeFrame(frame) ==
    CASE frame.type = "Upload" ->
             WireOf(1, U32BE(Len(frame.key)) \o frame.key \o frame.data)
      [] frame.type = "Download" -> WireOf(2, frame.key)
      [] frame.type = "Verify" -> WireOf(8, frame.key)
      [] frame.type = "Ack" ->
             WireOf(5, U32BE(Len(frame.key)) \o frame.key \o U64BE(frame.original_size)
                       \o U64BE(frame.compressed_size))
      [] frame.type = "Data" ->
             WireOf(6, U32BE(Len(frame.key)) \o frame.key \o frame.data)
      [] frame.type = "NotFound" -> WireOf(7, U32BE(Len(frame.key)) \o frame.key)
      [] frame.type = "Verified" ->
             WireOf(9, U32BE(Len(frame.key)) \o frame.key
                       \o <<IF frame.hash_match THEN 1 ELSE 0>>)
      [] frame.type = "FreezeDictionary" -> WireOf(3, <<>>)
      [] frame.type = "Close" -> WireOf(4, <<>>)
      [] frame.type = "ChunkStart" ->
             WireOf(16, U32BE(Len(frame.key)) \o frame.key \o U64BE(frame.total_size)
                        \o U32BE(frame.chunk_count))
      [] frame.type = "ChunkData" ->
             WireOf(17, U32BE(Len(frame.key)) \o frame.key \o U32BE(frame.chunk_index)
                        \o frame.data)
      [] frame.type = "ChunkEnd" -> WireOf(18, frame.key)

ReadErr == [res |-> "err"]

\* The `match header.frame_type` of read_frame: "ok" with the frame, "err" where it
\* returns Err, "panic" where an index is out of bounds.
ParseFrame(frame_type, payload) ==
    LET n == Len(payload)
        key_len == FromU32BE(payload, 0)
        key == Slice(payload, 4, key_len)
        keyed(type) == IF Utf8(payload) THEN [res |-> "ok", frame |-> [type |-> type, key |-> payload]]
                       ELSE ReadErr
    IN  CASE frame_type = 1 ->
                 IF n < 4 THEN ReadErr
                 ELSE IF n < 4 + key_len THEN ReadErr
                 ELSE IF ~Utf8(key) THEN ReadErr
                 ELSE [res |-> "ok",
                       frame |-> [type |-> "Upload", key |-> key,
                                  data |-> SubSeq(payload, 4 + key_len + 1, n)]]
          [] frame_type = 2 -> keyed("Download")
          [] frame_type = 8 -> keyed("Verify")
          [] frame_type = 3 -> [res |-> "ok", frame |-> [type |-> "FreezeDictionary"]]
          [] frame_type = 4 -> [res |-> "ok", frame |-> [type |-> "Close"]]
          [] frame_type = 16 ->
                 IF n < 12 THEN ReadErr
                 ELSE IF n < 12 + key_len THEN ReadErr
                 ELSE IF ~Utf8(key) THEN ReadErr
                 ELSE IF n < 16 + key_len THEN [res |-> "panic"]
                 ELSE [res |-> "ok",
                       frame |-> [type |-> "ChunkStart", key |-> key,
                                  total_size |-> FromU64BE(payload, 4 + key_len),
                                  chunk_count |-> FromU32BE(payload, 12 + key_len)]]
          [] frame_type = 17 ->
                 IF n < 8 THEN ReadErr
                 ELSE IF n < 8 + key_len THEN ReadErr
                 ELSE IF ~Utf8(key) THEN ReadErr
                 ELSE [res |-> "ok",
                       frame |-> [type |-> "ChunkData", key |-> key,
                                  chunk_index |-> FromU32BE(payload, 4 + key_len),
                                  data |-> SubSeq(payload, 8 + key_len + 1, n)]]
          [] frame_type = 18 -> keyed("ChunkEnd")
          [] OTHER -> ReadErr

\* A read_frame that goes on to parse whatever the checksum is.
ReadFrameUnchecked(w) ==
    IF w.header_read < 12 \/ Len(w.payload) < w.payload_len
    THEN IF w.eof THEN ReadErr ELSE [res |-> "wait"]
    ELSE ParseFrame(w.frame_type, SubSeq(w.payload, 1, w.payload_len))

\* read_frame on what has arrived: "wait" while read_exact has bytes to wait for.
ReadFrame(w) ==
    IF w.header_read < 12 \/ Len(w.payload) < w.payload_len
    THEN IF w.eof THEN ReadErr ELSE [res |-> "wait"]
    ELSE LET payload == SubSeq(w.payload, 1, w.payload_len)
         IN  IF Crc32(payload) # w.checksum THEN ReadErr
             ELSE ParseFrame(w.frame_type, payload)

-----------------------------------------------------------------------------
(* The server on the wire: a client writes one frame, sound or damaged, on a  *)
(* connection; Session::run reads it and handles what read_frame returns.     *)

\* The key of the frames on the wire ("k") and the objects uploaded ("aaab", "bbba").
WireKey == <<107>>
WireObjects == {<<97, 97, 97, 98>>, <<98, 98, 98, 97>>}

\* The frames a client builds with write_frame.
SoundFrames ==
    {[type |-> "Upload", key |-> WireKey, data |-> x] : x \in WireObjects}
    \cup {[type |-> t, key |-> WireKey] : t \in {"Download", "Verify", "ChunkEnd"}}
    \cup {[type |-> "FreezeDictionary"], [type |-> "Close"]}
    \cup {[type |-> "ChunkStart", key |-> WireKey, total_size |-> 4, chunk_count |-> 1]}
    \cup {[type |-> "ChunkData", key |-> WireKey, chunk_index |-> 0, data |-> x] : x \in WireObjects}
    \cup {[type |-> "Ack", key |-> WireKey, original_size |-> 4, compressed_size |-> 24]}

\* A frame whose header carries the checksum of another payload.
WrongChecksum(w) == [w EXCEPT !.checksum = Crc32(w.payload \o <<0>>)]

\* A frame of a type read_frame does not know.
UnknownType(w) == [w EXCEPT !.frame_type = 99]

\* A frame whose stream ends one byte short of the payload its header declares.
TruncatedPayload(w) == [w EXCEPT !.payload = SubSeq(@, 1, Len(@) - 1), !.eof = TRUE]

\* A frame whose stream ends within the header.
TruncatedHeader(w) == [w EXCEPT !.header_read = 5, !.payload = <<>>, !.eof = TRUE]

\* Frames, sent whole and with the right checksum, whose payload is too short for
\* the layout of their type or for the key length they declare.
ShortLayouts ==
    {WireOf(1, <<0, 0>>),
     WireOf(1, U32BE(5) \o WireKey),
     WireOf(16, U32BE(1) \o WireKey),
     WireOf(16, U32BE(3) \o WireKey \o U64BE(4) \o <<0, 0>>),
     WireOf(16, U32BE(1) \o WireKey \o U64BE(4)),
     WireOf(16, U32BE(1) \o WireKey \o U64BE(4) \o <<0, 0, 0>>),
     WireOf(17, U32BE(1) \o WireKey),
     WireOf(17, U32BE(3) \o WireKey \o U32BE(0))}

WireFrames ==
    LET sound == {EncodeFrame(f) : f \in SoundFrames}
    IN  sound
        \cup {WrongChecksum(w) : w \in sound}
        \cup {UnknownType(w) : w \in sound}
        \cup {TruncatedPayload(w) : w \in {v \in sound : v.payload # <<>>}}
        \cup {TruncatedHeader(w) : w \in sound}
        \cup ShortLayouts

\* The client writes a frame on connection s.
Send(s, w) ==
    /\ sess[s] = "active"
    /\ inbox[s] = NoFrame
    /\ call.n < MaxWireFrames
    /\ inbox' = [inbox EXCEPT ![s] = w]
    /\ call' = [call EXCEPT !.n = @ + 1]
    /\ UNCHANGED <<dict, symbols, usage, files, metas, sess, chunked, out, snapshots, uploads, tasks>>

\* A panic in read_frame: the task of the session is gone.
OnReadPanic(s) ==
    /\ PanicEnds(s, "panicked")
    /\ UNCHANGED <<dict, symbols, usage, files, metas, snapshots, uploads, out>>

\* `match frame` in the loop of Session::run: the arm of the frame read.
Arm(s, frame) ==
    CASE frame.type = "Upload" -> OnUpload(s, frame.key, frame.data)
      [] frame.type = "Download" -> OnDownload(s, frame.key)
      [] frame.type = "Verify" -> OnVerify(s, frame.key)
      [] frame.type = "FreezeDictionary" -> OnFreeze(s)
      [] frame.type = "Close" -> OnClose(s)
      [] frame.type = "ChunkStart" ->
             OnChunkStart(s, frame.key, frame.total_size, frame.chunk_count)
      [] frame.type = "ChunkData" ->
             OnChunkData(s, frame.key, frame.chunk_index, frame.data)
      [] OTHER -> OnIgnored(s)

\* One turn of the loop of Session::run: read_frame, then the arm of the frame.
Recv(s) ==
    /\ sess[s] = "active"
    /\ inbox[s] # NoFrame
    /\ LET r == ReadFrame(inbox[s])
       IN  /\ r.res # "wait"
           /\ call' = [call EXCEPT !.op = r.res, !.sid = s, !.wire = inbox[s]]
           /\ CASE r.res = "err" -> OnClose(s)
                [] r.res = "panic" -> OnReadPanic(s)
                [] OTHER -> Arm(s, r.frame)
    /\ inbox' = [inbox EXCEPT ![s] = NoFrame]
    /\ UNCHANGED tasks

NextWire ==
    \/ \E s \in Sessions, magic \in Magics, version \in Versions : Handshake(s, magic, version)
    \/ \E s \in Sessions, w \in WireFrames : Send(s, w)
    \/ \E s \in Sessions : Recv(s)

SpecWire == Init /\ [][NextWire]_vars

\* The frame types read_frame parses.
KnownTypes == {1, 2, 3, 4, 8, 16, 17, 18}

\* The bytes a payload of the type needs after its 4-byte key length and its key.
LayoutTail(frame_type) ==
    CASE frame_type = 16 -> 12
      [] frame_type = 17 -> 4
      [] OTHER -> 0

\* The frame is one of: cut short by the end of the stream, of a checksum other than
\* the CRC-32 of its payload, of an unknown type, too short for its key length field
\* or for the key length it declares.
Malformed(w) ==
    \/ w.eof /\ (w.header_read < 12 \/ Len(w.payload) < w.payload_len)
    \/ /\ w.header_read = 12 /\ Len(w.payload) >= w.payload_len
       /\ LET payload == SubSeq(w.payload, 1, w.payload_len)
          IN  \/ w.checksum # Crc32(payload)
              \/ w.frame_type \notin KnownTypes
              \/ /\ w.frame_type \in {1, 16, 17}
                 /\ \/ Len(payload) < 4
                    \/ Len(payload) < 4 + FromU32BE(payload, 0) + LayoutTail(w.frame_type)

\* C8: when the session reads a malformed frame it ends, and the dictionary, the
\* symbol records, the usage entries, the objects and their metadata stay as they
\* were.
MalformedFrameEndsSession ==
    [][\A s \in Sessions :
           (inbox[s] # NoFrame /\ inbox'[s] = NoFrame /\ Malformed(inbox[s]))
               => /\ sess[s] = "active" /\ sess'[s] \in {"closed", "error", "panicked"}
                  /\ <<dict, symbols, usage, files, metas, snapshots>>'
                         = <<dict, symbols, usage, files, metas, snapshots>>]_vars

\* A session that had stored an object has ended on a frame whose checksum is not
\* that of its payload.
MalformedFrameSeen ==
    /\ call.op = "err"
    /\ call.wire # NoFrame
    /\ call.wire.frame_type = 1 /\ call.wire.checksum # Crc32(call.wire.payload)
    /\ sess[call.sid] = "closed"
    /\ files # EmptyMap

-----------------------------------------------------------------------------
(* The metadata of stored objects: uploads of objects of three to five bytes, *)
(* before and after a freeze.                                                 *)

\* The objects uploaded: "aaa", "aaab", "bbbbb".
MetaObjects == {<<97, 97, 97>>, <<97, 97, 97, 98>>, <<98, 98, 98, 98, 98>>}

MetaUpload(s, key, data) ==
    /\ sess[s] = "active"
    /\ uploads < MaxMetaUploads
    /\ OnUpload(s, key, data)
    /\ UNCHANGED <<inbox, call, tasks>>

NextMeta ==
    \/ \E s \in Sessions, magic \in Magics, version \in Versions : Handshake(s, magic, version)
    \/ \E s \in Sessions, key \in Keys, data \in MetaObjects : MetaUpload(s, key, data)
    \/ \E s \in Sessions : FreezeDictionary(s)

SpecMeta == Init /\ [][NextMeta]_vars

\* C11: the token_breakdown of every stored object accounts for each byte of the
\* object once: symbol_bytes + literal_bytes = original_size.
BreakdownSumsToSize ==
    \A k \in DOMAIN metas :
        metas[k].token_breakdown.symbol_bytes + metas[k].token_breakdown.literal_bytes
            = metas[k].original_size

-----------------------------------------------------------------------------
(* The usage records of the symbol store: add_usage called directly, with the *)
(* occurrence counts objects of a few bytes can have.                          *)

\* The symbols usage is recorded for: "aaa", "bbbb".
UsageSymbols == {<<97, 97, 97>>, <<98, 98, 98, 98>>}

\* symbol_store.add_usage(hash of b, key, b.len(), count)
AddUsageCall(b, key, occurrence_count) ==
    /\ call.n < MaxUsageCalls
    /\ usage' = AddUsage(usage, Hash16(b), key, Len(b), occurrence_count)
    /\ call' = [call EXCEPT !.op = "add_usage", !.hash = Hash16(b), !.key = key,
                            !.count = occurrence_count,
                            !.prev = IF Hash16(b) \in DOMAIN usage /\ key \in DOMAIN usage[Hash16(b)].objects
                                     THEN usage[Hash16(b)].objects[key] ELSE 0,
                            !.n = @ + 1]
    /\ UNCHANGED <<dict, symbols, files, metas, sess, chunked, out, inbox, snapshots, uploads, tasks>>

NextUsage ==
    \E b \in UsageSymbols, key \in Keys, occurrence_count \in 0..MaxCount :
        AddUsageCall(b, key, occurrence_count)

SpecUsage == InitCodec /\ [][NextUsage]_vars

\* The sum of the values of a map of counts.
RECURSIVE SumOfCounts(_)
SumOfCounts(objects) ==
    IF DOMAIN objects = {} THEN 0
    ELSE LET k == CHOOSE x \in DOMAIN objects : TRUE
         IN  objects[k] + SumOfCounts([x \in DOMAIN objects \ {k} |-> objects[x]])

\* C12: in every usage record total_occurrences is the sum of the per-object counts,
\* and total_bytes_contributed is total_occurrences times the length of the symbol.
UsageTotalsConsistent ==
    \A h \in DOMAIN usage :
        /\ usage[h].total_occurrences = SumOfCounts(usage[h].objects)
        /\ \E b \in UsageSymbols :
               /\ h = Hash16(b)
               /\ usage[h].total_bytes_contributed = usage[h].total_occurrences * Len(b)

\* add_usage has replaced a larger count of one object of a symbol that two objects use.
UsageCountReplaced ==
    /\ call.op = "add_usage"
    /\ call.prev > call.count /\ call.count > 0
    /\ Cardinality(DOMAIN usage[call.hash].objects) = 2
    /\ usage[call.hash].total_occurrences > call.count

-----------------------------------------------------------------------------
(* Usage across uploads: keys uploaded again with other content, before and   *)
(* after a freeze.                                                            *)

\* The objects uploaded: "aaab", "aaaaaa".
ReuploadObjects == {<<97, 97, 97, 98>>, <<97, 97, 97, 97, 97, 97>>}

\* The key they are uploaded under, time and again ("k").
ReuploadKey == <<107>>

Reupload(s, key, data) ==
    /\ sess[s] = "active"
    /\ uploads < MaxMetaUploads
    /\ OnUpload(s, key, data)
    /\ UNCHANGED <<inbox, call, tasks>>

NextReupload ==
    \/ \E s \in Sessions, magic \in Magics, version \in Versions : Handshake(s, magic, version)
    \/ \E s \in Sessions, data \in ReuploadObjects : Reupload(s, ReuploadKey, data)
    \/ \E s \in Sessions : FreezeDictionary(s)

SpecReupload == Init /\ [][NextReupload]_vars

\* C13: no step takes a usage record away or lowers its total_occurrences.
TotalOccurrencesNeverDecrease ==
    [][\A h \in DOMAIN usage :
           h \in DOMAIN usage' /\ usage'[h].total_occurrences >= usage[h].total_occurrences]_vars

-----------------------------------------------------------------------------
(* The handlers of session.rs step by step: every session is a task of the     *)
(* multi-threaded runtime (server.rs, tokio::spawn), so between two steps of   *)
(* one task any other task may take steps. A step is what a task does between  *)
(* two points where another task can observe or change what it shares: the     *)
(* dictionary behind its Mutex, the files of the object store, the lock files. *)

\* The one key the concurrent requests are about, and what is uploaded to it.
TaskKey == <<107>>
TaskObjects == {<<97, 97, 97, 98>>, <<98, 98, 98, 97>>}

\* Requests the clients send in all.
MaxRequests == 3

\* The Mutex after a task panicked while holding it.
Poisoned == -1

\* A lock that is granted whoever holds it.
MutexIgnored == TRUE

\* Mutex::lock returns only while no other guard is alive.
MutexFree == mutex = 0

\* The path of the lock file of with_dictionary_lock and of with_symbol_lock.
DictLockPath == <<".dict_lock">>
SymbolLockPath(symbol_hash) == <<".symbol_lock_", symbol_hash>>

\* The pc values at which a task holds a FileLock on .dict_lock: acquire returned Ok
\* and the FileLock is not yet dropped.
DictLockHeld == {"freeze_lock", "freeze", "freeze_unlock"}

GoTo(s, label) == pc' = [pc EXCEPT ![s] = label]

\* self.global_dict.lock().unwrap() on a poisoned Mutex: the task panics.
LockPanics(s) ==
    /\ mutex = Poisoned
    /\ PanicEnds(s, "panicked")
    /\ UNCHANGED <<pc, local, mutex>>

\* handle_upload up to `self.global_dict.lock().unwrap()`.
UploadLock(s, key, data) ==
    /\ sess[s] = "active" /\ pc[s] = "idle"
    /\ call.n < MaxRequests
    /\ call' = [call EXCEPT !.n = @ + 1]
    /\ \/ /\ MutexFree
          /\ mutex' = s
          /\ GoTo(s, "compress_learn")
          /\ local' = [local EXCEPT ![s] = [NoLocal EXCEPT !.key = key, !.data = data]]
          /\ UNCHANGED <<sess, chunked>>
       \/ LockPanics(s)
    /\ UNCHANGED <<dict, symbols, usage, files, metas, out, inbox, snapshots, uploads, lockfiles>>
    /\ UNCHANGED <<server, data_dir, files_dir>>

\* compress up to tokenize: planning, and learning the planned symbols.
UploadLearn(s) ==
    /\ sess[s] = "active" /\ pc[s] = "compress_learn"
    /\ \E st \in CompressLearn(local[s].data, dict, symbols, usage, local[s].key) :
          /\ dict' = st.dict
          /\ symbols' = st.symbols
          /\ usage' = st.usage
          /\ local' = [local EXCEPT ![s].infos = st.infos]
    /\ GoTo(s, "compress_emit")
    /\ UNCHANGED <<files, metas, sess, chunked, out, inbox, snapshots, uploads, call, mutex, lockfiles>>
    /\ UNCHANGED <<server, data_dir, files_dir>>

\* An upload whose guard outlives the block around compress.
UploadEmitHoldsGuard(s) ==
    /\ sess[s] = "active" /\ pc[s] = "compress_emit"
    /\ \E r \in CompressTail(local[s].data, [dict |-> dict, symbols |-> symbols,
                                             usage |-> usage, infos |-> local[s].infos]) :
          LET dict_id == IF dict.frozen THEN dict.id ELSE DictName("mutable")
              content_hash == Sha256(local[s].data)
              meta == ObjectMetadata(local[s].key, content_hash, content_hash, dict_id,
                                     Len(local[s].data), Len(r.payload), r)
          IN  local' = [local EXCEPT ![s].payload = r.payload, ![s].meta = meta]
    /\ UNCHANGED mutex
    /\ GoTo(s, "put_data")
    /\ UNCHANGED <<dict, symbols, usage, files, metas, sess, chunked, out, inbox, snapshots,
                   uploads, call, lockfiles>>
    /\ UNCHANGED <<server, data_dir, files_dir>>

\* compress from tokenize on, dict_id, the end of the block that holds the guard, and
\* ObjectMetadata::new.
UploadEmit(s) ==
    /\ sess[s] = "active" /\ pc[s] = "compress_emit"
    /\ \E r \in CompressTail(local[s].data, [dict |-> dict, symbols |-> symbols,
                                             usage |-> usage, infos |-> local[s].infos]) :
          LET dict_id == IF dict.frozen THEN dict.id ELSE DictName("mutable")
              content_hash == Sha256(local[s].data)
              meta == ObjectMetadata(local[s].key, content_hash, content_hash, dict_id,
                                     Len(local[s].data), Len(r.payload), r)
          IN  local' = [local EXCEPT ![s].payload = r.payload, ![s].meta = meta]
    /\ mutex' = 0
    /\ GoTo(s, "put_data")
    /\ UNCHANGED <<dict, symbols, usage, files, metas, sess, chunked, out, inbox, snapshots,
                   uploads, call, lockfiles>>
    /\ UNCHANGED <<server, data_dir, files_dir>>

\* LocalStorage::put: fs::write(data_path, data).await
PutData(s) ==
    /\ sess[s] = "active" /\ pc[s] = "put_data"
    /\ files' = MapPut(files, local[s].key, local[s].payload)
    /\ GoTo(s, "put_meta")
    /\ UNCHANGED <<dict, symbols, usage, metas, sess, chunked, out, inbox, snapshots, uploads,
                   call, local, mutex, lockfiles>>
    /\ UNCHANGED <<server, data_dir, files_dir>>

\* LocalStorage::put: fs::write(meta_path, ...).await; call.puts keeps the objects put.
PutMeta(s) ==
    /\ sess[s] = "active" /\ pc[s] = "put_meta"
    /\ metas' = MapPut(metas, local[s].key, local[s].meta)
    /\ call' = [call EXCEPT !.puts = @ \cup {<<local[s].key, local[s].payload, local[s].meta>>}]
    /\ GoTo(s, "ack")
    /\ UNCHANGED <<dict, symbols, usage, files, sess, chunked, out, inbox, snapshots, uploads,
                   local, mutex, lockfiles>>
    /\ UNCHANGED <<server, data_dir, files_dir>>

\* handle_upload after put: record_upload and the Ack.
UploadAck(s) ==
    /\ sess[s] = "active" /\ pc[s] = "ack"
    /\ uploads' = uploads + 1
    /\ WriteFrame(s, AckFrame(local[s].key, Len(local[s].data), Len(local[s].payload)))
    /\ GoTo(s, "idle")
    /\ local' = [local EXCEPT ![s] = NoLocal]
    /\ UNCHANGED <<dict, symbols, usage, files, metas, sess, chunked, inbox, snapshots,
                   call, mutex, lockfiles>>
    /\ UNCHANGED <<server, data_dir, files_dir>>

\* LocalStorage::get: fs::read(data_path).await, None where it fails.
GetData(s, key) ==
    /\ sess[s] = "active" /\ pc[s] = "idle"
    /\ call.n < MaxRequests
    /\ call' = [call EXCEPT !.n = @ + 1]
    /\ IF key \notin DOMAIN files
       THEN WriteFrame(s, NotFoundFrame(key)) /\ UNCHANGED <<pc, local>>
       ELSE /\ local' = [local EXCEPT ![s] = [NoLocal EXCEPT !.key = key, !.payload = files[key]]]
            /\ GoTo(s, "get_meta")
            /\ UNCHANGED out
    /\ UNCHANGED <<dict, symbols, usage, files, metas, sess, chunked, inbox, snapshots, uploads,
                   mutex, lockfiles>>
    /\ UNCHANGED <<server, data_dir, files_dir>>

\* LocalStorage::get: fs::read(meta_path).await?, the error ends the session.
GetMeta(s) ==
    /\ sess[s] = "active" /\ pc[s] = "get_meta"
    /\ IF local[s].key \notin DOMAIN metas \/ metas[local[s].key] = TornMeta
       THEN SessionEnds(s, "error") /\ GoTo(s, "get_failed") /\ UNCHANGED local
       ELSE /\ local' = [local EXCEPT ![s].meta = metas[local[s].key]]
            /\ GoTo(s, "decode_lock")
            /\ UNCHANGED <<sess, chunked>>
    /\ UNCHANGED <<dict, symbols, usage, files, metas, out, inbox, snapshots, uploads, call,
                   mutex, lockfiles>>
    /\ UNCHANGED <<server, data_dir, files_dir>>

\* handle_download: `self.global_dict.lock().unwrap()`
DownloadLock(s) ==
    /\ sess[s] = "active" /\ pc[s] = "decode_lock"
    /\ \/ MutexFree /\ mutex' = s /\ GoTo(s, "decode") /\ UNCHANGED <<sess, chunked, local>>
       \/ LockPanics(s)
    /\ UNCHANGED <<dict, symbols, usage, files, metas, out, inbox, snapshots, uploads, call,
                   lockfiles>>
    /\ UNCHANGED <<server, data_dir, files_dir>>

\* handle_download: decompress under the guard, then the Data frame; a panic inside
\* decompress poisons the Mutex.
DownloadDecode(s) ==
    /\ sess[s] = "active" /\ pc[s] = "decode"
    /\ LET r == Decompress(local[s].payload, dict)
       IN  IF r.panic
           THEN /\ PanicEnds(s, "panicked")
                /\ mutex' = Poisoned
                /\ UNCHANGED <<out, pc, local>>
           ELSE /\ WriteFrame(s, DataFrame(local[s].key, r.bytes))
                /\ mutex' = 0
                /\ GoTo(s, "idle")
                /\ local' = [local EXCEPT ![s] = NoLocal]
                /\ UNCHANGED <<sess, chunked>>
    /\ UNCHANGED <<dict, symbols, usage, files, metas, inbox, snapshots, uploads, call, lockfiles>>
    /\ UNCHANGED <<server, data_dir, files_dir>>

\* FileLock::try_acquire: OpenOptions create, write, truncate; then "timestamp:pid".
TryAcquire(path) == lockfiles' = MapPut(lockfiles, path, <<Now, "pid">>)

\* impl Drop for FileLock: remove_file
DropFileLock(path) == lockfiles' = MapRemove(lockfiles, path)

\* Frame::FreezeDictionary: with_dictionary_lock up to FileLock::acquire.
FreezeFileLock(s) ==
    /\ sess[s] = "active" /\ pc[s] = "idle"
    /\ call.n < MaxRequests
    /\ call' = [call EXCEPT !.n = @ + 1]
    /\ TryAcquire(DictLockPath)
    /\ GoTo(s, "freeze_lock")
    /\ UNCHANGED <<dict, symbols, usage, files, metas, sess, chunked, out, inbox, snapshots,
                   uploads, local, mutex>>
    /\ UNCHANGED <<server, data_dir, files_dir>>

\* Frame::FreezeDictionary: `self.global_dict.lock().unwrap()` inside the closure; the
\* unwinding of a panic drops the FileLock.
FreezeLock(s) ==
    /\ sess[s] = "active" /\ pc[s] = "freeze_lock"
    /\ \/ /\ MutexFree /\ mutex' = s /\ GoTo(s, "freeze")
          /\ UNCHANGED <<sess, chunked, local, lockfiles>>
       \/ LockPanics(s) /\ DropFileLock(DictLockPath)
    /\ UNCHANGED <<dict, symbols, usage, files, metas, out, inbox, snapshots, uploads, call>>
    /\ UNCHANGED <<server, data_dir, files_dir>>

\* Frame::FreezeDictionary: the closure under the guard.
FreezeDo(s) ==
    /\ sess[s] = "active" /\ pc[s] = "freeze"
    /\ IF ~dict.frozen
       THEN LET r == Freeze(dict)
            IN  /\ dict' = r.dict
                /\ snapshots' = SaveFrozen(snapshots, r.ret, r.dict)
       ELSE UNCHANGED <<dict, snapshots>>
    /\ mutex' = 0
    /\ GoTo(s, "freeze_unlock")
    /\ UNCHANGED <<symbols, usage, files, metas, sess, chunked, out, inbox, uploads, call,
                   local, lockfiles>>
    /\ UNCHANGED <<server, data_dir, files_dir>>

\* with_dictionary_lock returns: the FileLock is dropped.
FreezeFileUnlock(s) ==
    /\ sess[s] = "active" /\ pc[s] = "freeze_unlock"
    /\ DropFileLock(DictLockPath)
    /\ GoTo(s, "idle")
    /\ UNCHANGED <<dict, symbols, usage, files, metas, sess, chunked, out, inbox, snapshots,
                   uploads, call, local, mutex>>
    /\ UNCHANGED <<server, data_dir, files_dir>>

NextTasks ==
    \/ \E s \in Sessions, magic \in Magics, version \in Versions : Handshake(s, magic, version)
    \/ \E s \in Sessions, data \in TaskObjects : UploadLock(s, TaskKey, data)
    \/ \E s \in Sessions : UploadLearn(s)
    \/ \E s \in Sessions : UploadEmit(s)
    \/ \E s \in Sessions : PutData(s)
    \/ \E s \in Sessions : PutMeta(s)
    \/ \E s \in Sessions : UploadAck(s)
    \/ \E s \in Sessions : GetData(s, TaskKey)
    \/ \E s \in Sessions : GetMeta(s)
    \/ \E s \in Sessions : DownloadLock(s)
    \/ \E s \in Sessions : DownloadDecode(s)
    \/ \E s \in Sessions : FreezeFileLock(s)
    \/ \E s \in Sessions : FreezeLock(s)
    \/ \E s \in Sessions : FreezeDo(s)
    \/ \E s \in Sessions : FreezeFileUnlock(s)

SpecTasks == Init /\ [][NextTasks]_vars

\* The encode of an upload is in progress: planning has started, the tokens are not yet
\* produced and dict_id is not yet determined.
InEncode(s) == pc[s] \in {"compress_learn", "compress_emit"}

\* The next step of the task reads, inserts into or freezes the dictionary.
UsesDictionary(s) == pc[s] \in {"compress_learn", "compress_emit", "decode", "freeze"}

\* C14: the whole encode of one object is one critical section on the global
\* dictionary: while the encode of a session is in progress that session holds the
\* Mutex, no other session stands at a step that reads, inserts into or freezes the
\* dictionary, and no step of another session changes the dictionary.
EncodeIsCriticalSection ==
    [][\A s \in Sessions :
          InEncode(s) =>
              /\ mutex = s
              /\ \A t \in Sessions \ {s} : ~UsesDictionary(t)
              /\ dict' # dict => pc'[s] # pc[s]]_vars

\* An encode has learned its symbols and has yet to tokenize, while the other session
\* waits for the Mutex to decompress or to freeze.
EncodeWhileOtherWaits ==
    \E s \in Sessions, t \in Sessions :
        /\ s # t
        /\ pc[s] = "compress_emit"
        /\ dict.encode # EmptyMap
        /\ pc[t] \in {"decode_lock", "freeze_lock"}

\* C15: put(key, payload, meta) is atomic for other sessions: a get that runs next to a
\* put has read a payload and a metadata record that one put wrote together, and never
\* finds the payload there and the metadata record missing.
GetSeesWholeObject ==
    \A s \in Sessions :
        /\ pc[s] # "get_failed"
        /\ pc[s] = "decode_lock" =>
               <<local[s].key, local[s].payload, local[s].meta>> \in call.puts

\* The upload of the session is under way: begun and not yet acknowledged.
Uploading(s) == pc[s] \in {"compress_learn", "compress_emit", "put_data", "put_meta", "ack"}

\* C16: once the uploads to a key are all acknowledged, also those that ran at the same
\* time with different contents, the stored payload and the stored metadata of the key
\* belong to the same one of the uploads.
PayloadAndMetadataOfOneUpload ==
    (\A s \in Sessions : ~Uploading(s)) =>
        \A key \in DOMAIN files :
            /\ key \in DOMAIN metas
            /\ <<key, files[key], metas[key]>> \in call.puts

\* The sessions that hold a FileLock on .dict_lock.
DictLockHolders == {s \in Sessions : sess[s] = "active" /\ pc[s] \in DictLockHeld}

\* C17: the advisory file lock .dict_lock is mutually exclusive: while one holder has
\* acquired it and not yet released it, no other acquires it.
DictLockExclusive == Cardinality(DictLockHolders) <= 1

\* The symbol records a step writes: those it creates and those it rewrites.
SymbolsWritten == {h \in DOMAIN symbols' : h \notin DOMAIN symbols \/ symbols'[h] # symbols[h]}

\* C18: every write of a symbol record by an upload happens while the lock file
\* .symbol_lock_<hash> of that symbol is held.
SymbolWritesUnderLock ==
    [][\A h \in SymbolsWritten : SymbolLockPath(h) \in DOMAIN lockfiles]_vars

\* The places of a handler from which its task goes on by itself, and those at which
\* it waits for the Mutex.
Running == {"compress_learn", "compress_emit", "put_data", "put_meta", "ack", "get_meta",
            "decode", "freeze", "freeze_unlock"}
Waiting == {"decode_lock", "freeze_lock"}

\* The task of session s leaves the place of a handler it stands at.
Moves(s) ==
    /\ sess[s] = "active" /\ pc[s] \in Running
    /\ \E label \in (Running \cup Waiting \cup {"idle", "get_failed"}) \ {pc[s]} :
           pc' = [pc EXCEPT ![s] = label]

\* The task of session s, waiting at `self.global_dict.lock()`, takes the free Mutex.
Acquires(s) ==
    /\ sess[s] = "active" /\ pc[s] \in Waiting
    /\ MutexFree
    /\ mutex' = s

\* A task that can go on does; taking the Mutex is strongly fair (no waiter is passed
\* over forever).
TaskFairness(s) == WF_pc(Moves(s)) /\ SF_mutex(Acquires(s))

SpecTasksFair == SpecTasks /\ \A s \in Sessions : TaskFairness(s)

\* Session s stands at `self.global_dict.lock()`.
WaitsForDictionary(s) == sess[s] = "active" /\ pc[s] \in Waiting

-----------------------------------------------------------------------------
(* The start of a connection: the client may write frames behind its handshake *)
(* before it has seen the answer, so a frame can wait on the wire of a session *)
(* that has not yet read, or has refused, the handshake.                       *)

\* The frames the clients write.
HelloFrames ==
    {EncodeFrame(f) : f \in {[type |-> "Upload", key |-> WireKey, data |-> <<97, 97, 97, 98>>],
                             [type |-> "Download", key |-> WireKey],
                             [type |-> "FreezeDictionary"],
                             [type |-> "Close"]}}

\* The client writes its handshake and the session reads it; call keeps what was read.
ClientHello(s, magic, version) ==
    /\ sess[s] = "opened"
    /\ OnHandshake(s, magic, version)
    /\ call' = [call EXCEPT !.op = "handshake", !.sid = s, !.input = magic, !.count = version]
    /\ UNCHANGED <<inbox, tasks>>

\* The client writes a frame, whatever the session has made of its handshake.
ClientSend(s, w) ==
    /\ inbox[s] = NoFrame
    /\ call.n < MaxWireFrames
    /\ inbox' = [inbox EXCEPT ![s] = w]
    /\ call' = [call EXCEPT !.n = @ + 1]
    /\ UNCHANGED <<dict, symbols, usage, files, metas, sess, chunked, out, snapshots, uploads, tasks>>

NextHello ==
    \/ \E s \in Sessions, magic \in Magics, version \in Versions : ClientHello(s, magic, version)
    \/ \E s \in Sessions, w \in HelloFrames : ClientSend(s, w)
    \/ \E s \in Sessions : Recv(s)

SpecHello == Init /\ [][NextHello]_vars

\* C19: a session processes no frame until it has read a handshake with magic "SYMV"
\* and version 1: it takes a frame off the wire or writes a response only when active,
\* it becomes active only by reading that handshake, and a handshake with another
\* magic or version ends it with an error in a step that takes no frame, writes no
\* response and changes nothing stored; an ended session stays ended.
HandshakeBeforeFrames ==
    [][\A s \in Sessions :
          LET consumed == inbox[s] # NoFrame /\ inbox'[s] = NoFrame
              answered == out'[s] # out[s]
          IN  /\ (consumed \/ answered) => sess[s] = "active"
              /\ (sess'[s] = "active" /\ sess[s] # "active") => sess[s] = "opened"
              /\ (sess[s] = "opened" /\ sess'[s] \in {"active", "error"}) =>
                    /\ call'.op = "handshake" /\ call'.sid = s
                    /\ sess'[s] = "active" <=> (call'.input = <<83, 89, 77, 86>> /\ call'.count = 1)
                    /\ ~consumed /\ ~answered
                    /\ <<dict, symbols, usage, files, metas, snapshots, uploads, chunked>>'
                           = <<dict, symbols, usage, files, metas, snapshots, uploads, chunked>>
              /\ sess[s] = "error" => sess'[s] = "error"]_vars

\* A session has refused a handshake of version 2 and a frame of its client waits on
\* the wire unanswered, while the other session has stored an object.
HandshakeRefusedFrameWaits ==
    \E s \in Sessions :
        /\ sess[s] = "error"
        /\ call.op = "handshake" /\ call.sid = s /\ call.count = 2
        /\ inbox[s] # NoFrame
        /\ out[s] = NoFrame
        /\ files # EmptyMap

-----------------------------------------------------------------------------
(* The loop of Session::run over the stream of one connection: here inbox[s]  *)
(* is the sequence of the frames the client has written and the session has   *)
(* not yet read, and out[s] is the response written since the last read_frame *)
(* (read_frame clears it, to tell the response to one request from the        *)
(* response to the next). call.arrived keeps the frames in the order they     *)
(* were written, call.log the frames read and the responses written.          *)

\* Frames a client may have written ahead of the session.
MaxQueue == 2

\* The frames the clients write: four sound ones (to a ChunkEnd there is no response), one
\* with a wrong checksum and a ChunkStart too short for its layout.
PipeFrames ==
    {EncodeFrame(f) : f \in {[type |-> "Upload", key |-> WireKey, data |-> <<97, 97, 97, 98>>],
                             [type |-> "Download", key |-> WireKey],
                             [type |-> "ChunkEnd", key |-> WireKey],
                             [type |-> "Close"]}}
    \cup {WrongChecksum(EncodeFrame([type |-> "Download", key |-> WireKey])),
          WireOf(16, U32BE(1) \o WireKey \o U64BE(4))}

InitPipe ==
    /\ InitStore
    /\ sess = [s \in Sessions |-> "opened"]
    /\ chunked = [s \in Sessions |-> EmptyMap]
    /\ out = [s \in Sessions |-> NoFrame]
    /\ inbox = [s \in Sessions |-> <<>>]

\* The frame at the end of the stream, the one written last.
LastFrame(stream) == stream[Len(stream)]

\* The frame read_frame takes: the bytes at the front of the stream.
NextFrame(stream) == Head(stream)

\* The client writes a frame behind those it has already written.
PipeSend(s, w) ==
    /\ sess[s] = "active"
    /\ Len(inbox[s]) < MaxQueue
    /\ call.n < MaxWireFrames
    /\ inbox' = [inbox EXCEPT ![s] = Append(@, w)]
    /\ call' = [call EXCEPT !.n = @ + 1, !.arrived[s] = Append(@, w)]
    /\ UNCHANGED <<dict, symbols, usage, files, metas, sess, chunked, out, snapshots, uploads, tasks>>

\* read_frame at the top of the loop: one frame leaves the stream; an error ends the
\* loop, a panic the task.
ReadNext(s) ==
    /\ sess[s] = "active" /\ pc[s] = "idle"
    /\ inbox[s] # <<>>
    /\ LET w == NextFrame(inbox[s])
           r == ReadFrame(w)
       IN  /\ r.res # "wait"
           /\ call' = [call EXCEPT !.op = r.res, !.sid = s, !.wire = w,
                                   !.log[s] = Append(@, [ev |-> "read", frame |-> w])]
           /\ CASE r.res = "err" -> OnClose(s) /\ UNCHANGED <<pc, local>>
                [] r.res = "panic" -> OnReadPanic(s) /\ UNCHANGED <<pc, local>>
                [] OTHER ->
                     /\ out' = [out EXCEPT ![s] = NoFrame]
                     /\ local' = [local EXCEPT ![s] = [NoLocal EXCEPT !.wire = w]]
                     /\ GoTo(s, "arm")
                     /\ UNCHANGED <<dict, symbols, usage, files, metas, sess, chunked,
                                    snapshots, uploads>>
    /\ inbox' = [inbox EXCEPT ![s] = Tail(@)]
    /\ UNCHANGED <<mutex, lockfiles>>
    /\ UNCHANGED <<server, data_dir, files_dir>>

\* The arm of the frame read, with the response it writes.
HandleFrame(s) ==
    /\ sess[s] = "active" /\ pc[s] = "arm"
    /\ Arm(s, ReadFrame(local[s].wire).frame)
    /\ call' = [call EXCEPT !.log[s] = IF out'[s] # NoFrame
                                       THEN Append(@, [ev |-> "write", frame |-> out'[s]])
                                       ELSE @]
    /\ GoTo(s, "idle")
    /\ local' = [local EXCEPT ![s] = NoLocal]
    /\ UNCHANGED <<inbox, mutex, lockfiles>>
    /\ UNCHANGED <<server, data_dir, files_dir>>

NextPipe ==
    \/ \E s \in Sessions, magic \in Magics, version \in Versions : Handshake(s, magic, version)
    \/ \E s \in Sessions, w \in PipeFrames : PipeSend(s, w)
    \/ \E s \in Sessions : ReadNext(s)
    \/ \E s \in Sessions : HandleFrame(s)

SpecPipe == InitPipe /\ [][NextPipe]_vars

\* The frames among the first n events of a log that are of kind ev.
RECURSIVE FramesOf(_, _, _)
FramesOf(log, ev, n) ==
    IF n = 0 THEN <<>>
    ELSE FramesOf(log, ev, n - 1) \o (IF log[n].ev = ev THEN <<log[n].frame>> ELSE <<>>)

\* C20: within one connection the session reads one frame at a time and in arrival
\* order: the frames read are, in order, the first frames written, and every frame
\* written is either read or still on the stream; every response directly follows the
\* read of a request, so that a request has at most one response and the response is
\* written before the next frame is read.
FramesInArrivalOrder ==
    \A s \in Sessions :
        LET log   == call.log[s]
            reads == FramesOf(log, "read", Len(log))
        IN  /\ Len(reads) <= Len(call.arrived[s])
            /\ reads = SubSeq(call.arrived[s], 1, Len(reads))
            /\ reads \o inbox[s] = call.arrived[s]
            /\ \A i \in DOMAIN log : log[i].ev = "write" => i > 1 /\ log[i - 1].ev = "read"

\* A session has read two different frames, has answered the first and has had nothing
\* to answer to the second, while a third frame waits on its stream.
TwoFramesReadInOrder ==
    \E s \in Sessions :
        LET log == call.log[s]
        IN  /\ Len(log) = 3
            /\ inbox[s] # <<>>
            /\ log[1].ev = "read" /\ log[2].ev = "write" /\ log[3].ev = "read"
            /\ log[1].frame # log[3].frame
            /\ log[2].frame.type = "NotFound"
            /\ pc[s] = "idle" /\ sess[s] = "active"

-----------------------------------------------------------------------------
(* The object store when a write of LocalStorage::put fails (the disk is full, *)
(* the directory is not writable): uploads that are stored, uploads whose put  *)
(* fails, and the downloads and verifies that follow.                          *)

\* An upload that is stored; call keeps the request.
StoredUpload(s, key, data) ==
    /\ sess[s] = "active"
    /\ call.n < MaxRequests
    /\ OnUpload(s, key, data)
    /\ call' = [call EXCEPT !.op = "upload", !.sid = s, !.key = key, !.input = data, !.n = @ + 1]
    /\ UNCHANGED <<inbox, tasks>>

\* An upload whose put fails.
FailedUpload(s, key, data, failure) ==
    /\ sess[s] = "active"
    /\ call.n < MaxRequests
    /\ HandleUploadPutFails(s, key, data, failure)
    /\ call' = [call EXCEPT !.op = "put_failed", !.sid = s, !.key = key, !.input = data, !.n = @ + 1]
    /\ UNCHANGED <<inbox, tasks>>

\* A Download or a Verify.
Fetch(s, key, verify) ==
    /\ sess[s] = "active"
    /\ call.n < MaxRequests
    /\ IF verify THEN OnVerify(s, key) ELSE OnDownload(s, key)
    /\ call' = [call EXCEPT !.op = IF verify THEN "verify" ELSE "download",
                            !.sid = s, !.key = key, !.n = @ + 1]
    /\ UNCHANGED <<inbox, tasks>>

NextPutFail ==
    \/ \E s \in Sessions, magic \in Magics, version \in Versions : Handshake(s, magic, version)
    \/ \E s \in Sessions, data \in TaskObjects : StoredUpload(s, TaskKey, data)
    \/ \E s \in Sessions, data \in TaskObjects, failure \in PutFailures :
           FailedUpload(s, TaskKey, data, failure)
    \/ \E s \in Sessions, verify \in BOOLEAN : Fetch(s, TaskKey, verify)

SpecPutFail == Init /\ [][NextPutFail]_vars

\* What the object store holds for a key.
Stored(fs, ms, key) ==
    <<IF key \in DOMAIN fs THEN <<fs[key]>> ELSE <<>>,
      IF key \in DOMAIN ms THEN <<ms[key]>> ELSE <<>>>>

\* C22: whenever an upload ends in an error, the object store holds for its key
\* exactly what it held before the upload.
FailedUploadPersistsNothing ==
    [][(call'.n = call.n + 1 /\ call'.op = "put_failed")
          => Stored(files', metas', call'.key) = Stored(files, metas, call'.key)]_vars

\* C23: a Download or a Verify of a key whose payload file or metadata file is missing
\* is answered NotFound and the session continues.
MissingFileIsNotFound ==
    [][(/\ call'.n = call.n + 1
        /\ call'.op \in {"download", "verify"}
        /\ (call'.key \notin DOMAIN files \/ call'.key \notin DOMAIN metas))
          => /\ out'[call'.sid] = NotFoundFrame(call'.key)
             /\ sess'[call'.sid] = "active"]_vars

(***************************************************************************)
(* The hashes the metadata of a stored object carries.                     *)
(***************************************************************************)

\* C29: for every stored object, the object_hash of its metadata is the SHA-256 of the
\* compressed payload stored under its key.
ObjectHashIsOfPayload ==
    \A key \in DOMAIN files \cap DOMAIN metas :
        metas[key].object_hash = Sha256(files[key])

(***************************************************************************)
(* The same content uploaded under two keys.                               *)
(***************************************************************************)

\* An upload, logged with the original_hash its metadata got.
DedupUpload(s, key, data) ==
    /\ sess[s] = "active"
    /\ call.n < MaxDedupUploads
    /\ OnUpload(s, key, data)
    /\ call' = [call EXCEPT !.op = "upload", !.sid = s, !.key = key, !.input = data,
                            !.n = @ + 1,
                            !.stored = Append(@, [key |-> key, data |-> data,
                                               original_hash |-> metas'[key].original_hash])]
    /\ UNCHANGED <<inbox, tasks>>

\* The object uploaded twice: "aaaaaaa", which has 4 substrings of gain.
DedupObjects == {<<97, 97, 97, 97, 97, 97, 97>>}

\* The first connection uploads under both keys; the second only opens.
NextDedup ==
    \/ \E s \in Sessions, magic \in Magics, version \in Versions : Handshake(s, magic, version)
    \/ \E key \in Keys, data \in DedupObjects : DedupUpload(1, key, data)

SpecDedup == Init /\ [][NextDedup]_vars

\* The earlier uploads of the content `data` under a key other than `key`.
EarlierUnderOtherKey(key, data) ==
    {i \in 1..Len(call.stored) : call.stored[i].data = data /\ call.stored[i].key # key}

\* C30: an upload of content that was uploaded before under a different key gets metadata
\* with the original_hash the earlier upload got, and the symbol store holds the same set
\* of records after it as before it.
SameContentOtherKey ==
    [][(call'.n = call.n + 1 /\ call'.op = "upload"
        /\ EarlierUnderOtherKey(call'.key, call'.input) # {})
           => /\ \A i \in EarlierUnderOtherKey(call'.key, call'.input) :
                     metas'[call'.key].original_hash = call.stored[i].original_hash
              /\ DOMAIN symbols' = DOMAIN symbols]_vars

(***************************************************************************)
(* The life of the global dictionary under the requests of Spec.           *)
(***************************************************************************)

\* C26: within the global dictionary tokens only grow: a token a step binds is greater
\* than every token bound before the step, and a token bound before the step is bound
\* to the same byte sequence after it.
TokensGrowAndStayBound ==
    [][/\ \A t \in DOMAIN dict.decode :
              t \in DOMAIN dict'.decode => dict'.decode[t] = dict.decode[t]
       /\ \A t \in DOMAIN dict'.decode \ DOMAIN dict.decode :
              \A u \in DOMAIN dict.decode : t > u]_vars

\* C27: once the global dictionary is frozen, no request reopens it: frozen stays true
\* and the id, the encode map and the decode map are the same after every step.
FrozenStaysFrozen ==
    [][dict.frozen =>
           /\ dict'.frozen
           /\ dict'.id = dict.id
           /\ dict'.encode = dict.encode
           /\ dict'.decode = dict.decode]_vars

\* The dictionary was frozen with a symbol in it, and an object was stored after that.
StoredUnderFrozenDictionary ==
    /\ dict.frozen
    /\ DOMAIN dict.encode # {}
    /\ \E key \in DOMAIN metas : metas[key] # TornMeta /\ metas[key].dict_id = dict.id

(***************************************************************************)
(* The server process from its start to the accept loop: damaged symbol    *)
(* records at boot.                                                         *)
(***************************************************************************)

\* SymbolStore::verify_symbol_integrity: the bytes of the record hash to its content_hash.
VerifySymbolIntegrity(syms, hash) == Sha256(syms[hash].bytes) = syms[hash].content_hash

\* A verification that, like StartupValidator::verify_symbols, only counts the records.
VerifyAllSymbolsCounting(syms) == Cardinality(DOMAIN syms) >= 0

\* SymbolStore::verify_all_symbols: Ok exactly if every record of symbols/ verifies.
VerifyAllSymbols(syms) == \A hash \in DOMAIN syms : VerifySymbolIntegrity(syms, hash)

\* run_on's dictionary load: a dictionary_*.json of data_dir that parses, whichever
\* read_dir gives first, else a new mutable dictionary.
LoadedDictionaries ==
    LET found == {path \in DOMAIN snapshots : path[1] = data_dir}
    IN  IF found = {} THEN {NewDictionary("global")}
        ELSE {snapshots[path] : path \in found}

\* main's `start` followed by run_on up to its accept loop: validate_and_start (which
\* compares no hash), bind, the dictionary load under the dictionary file lock, and
\* SymbolStore::new, which panics where verify_all_symbols gives Err.
Boot ==
    /\ server \in {"down", "failed"}
    /\ \E d \in LoadedDictionaries : dict' = d
    /\ lockfiles' = MapRemove(lockfiles, DictLockPath)
    /\ server' = IF VerifyAllSymbols(symbols) THEN "serving" ELSE "failed"
    /\ uploads' = 0
    /\ mutex' = 0
    /\ pc' = [s \in Sessions |-> "idle"]
    /\ local' = [s \in Sessions |-> NoLocal]
    /\ call' = [call EXCEPT !.op = "boot", !.ok = VerifyAllSymbols(symbols)]
    /\ UNCHANGED <<symbols, usage, files, metas, sess, chunked, out, inbox, snapshots,
                   data_dir, files_dir>>

\* run_on's loop: listener.accept() and the Session spawned for the connection.
Accept(s) ==
    /\ server = "serving"
    /\ sess[s] \notin {"opened", "active"}
    /\ sess' = [sess EXCEPT ![s] = "opened"]
    /\ chunked' = [chunked EXCEPT ![s] = EmptyMap]
    /\ out' = [out EXCEPT ![s] = NoFrame]
    /\ inbox' = [inbox EXCEPT ![s] = NoFrame]
    /\ call' = [call EXCEPT !.op = "accept", !.sid = s]
    /\ UNCHANGED <<dict, symbols, usage, files, metas, snapshots, uploads, tasks>>

\* The process is stopped: its connections and everything it held in memory are gone.
Stop ==
    /\ server = "serving"
    /\ server' = "down"
    /\ sess' = [s \in Sessions |-> "closed"]
    /\ chunked' = [s \in Sessions |-> EmptyMap]
    /\ call' = [call EXCEPT !.op = "stop"]
    /\ UNCHANGED <<dict, symbols, usage, files, metas, out, inbox, snapshots, uploads,
                   pc, local, mutex, lockfiles, data_dir, files_dir>>

\* What damage leaves in the place of a record's bytes.
DamagedBytes == {<<0>>, <<97, 97>>}

\* While the server is not running, a stored symbol record's bytes change on disk.
Damage(hash, bytes) ==
    /\ server # "serving"
    /\ hash \in DOMAIN symbols
    /\ bytes # symbols[hash].bytes
    /\ symbols' = [symbols EXCEPT ![hash].bytes = bytes]
    /\ call' = [call EXCEPT !.op = "damage"]
    /\ UNCHANGED <<dict, usage, files, metas, sess, chunked, out, inbox, snapshots, uploads,
                   tasks>>

\* An upload, counted.
BootUpload(s, key, data) ==
    /\ sess[s] = "active"
    /\ call.n < MaxBootUploads
    /\ OnUpload(s, key, data)
    /\ call' = [call EXCEPT !.op = "upload", !.sid = s, !.key = key, !.input = data, !.n = @ + 1]
    /\ UNCHANGED <<inbox, tasks>>

\* A download, counted.
BootDownload(s, key) ==
    /\ sess[s] = "active"
    /\ call.count < MaxBootDownloads
    /\ OnDownload(s, key)
    /\ call' = [call EXCEPT !.op = "download", !.sid = s, !.key = key, !.count = @ + 1]
    /\ UNCHANGED <<inbox, tasks>>

InitDown ==
    /\ dict = NewDictionary("global")
    /\ symbols = EmptyMap
    /\ usage = EmptyMap
    /\ files = EmptyMap
    /\ metas = EmptyMap
    /\ snapshots = EmptyMap
    /\ uploads = 0
    /\ call = NoCall
    /\ pc = [s \in Sessions |-> "idle"]
    /\ local = [s \in Sessions |-> NoLocal]
    /\ mutex = 0
    /\ lockfiles = EmptyMap
    /\ server = "down"
    /\ data_dir \in DataDirs
    /\ files_dir = EmptyMap
    /\ sess = [s \in Sessions |-> "closed"]
    /\ chunked = [s \in Sessions |-> EmptyMap]
    /\ out = [s \in Sessions |-> NoFrame]
    /\ inbox = [s \in Sessions |-> NoFrame]

NextBoot ==
    \/ Boot
    \/ \E s \in Sessions : Accept(s)
    \/ \E s \in Sessions, magic \in Magics, version \in Versions : Handshake(s, magic, version)
    \/ \E s \in Sessions, data \in TaskObjects : BootUpload(s, TaskKey, data)
    \/ \E s \in Sessions : BootDownload(s, TaskKey)
    \/ \E s \in Sessions : FreezeDictionary(s)
    \/ Stop
    \/ \E hash \in DOMAIN symbols, bytes \in DamagedBytes : Damage(hash, bytes)

SpecBoot == InitDown /\ [][NextBoot]_vars

\* Some record of the symbol store does not hash to its content_hash.
SomeRecordDamaged == \E hash \in DOMAIN symbols : ~VerifySymbolIntegrity(symbols, hash)

\* C25: a boot that finds a symbol record whose bytes do not hash to its content_hash
\* fails, and a connection is accepted only by a server whose boot succeeded: with a
\* damaged record at boot no client connection is ever accepted.
DamagedStoreNeverServes ==
    [][/\ (server # "serving" /\ SomeRecordDamaged) => server' # "serving"
       /\ (\E s \in Sessions : sess'[s] = "opened" /\ sess[s] # "opened")
              => (server = "serving" /\ ~SomeRecordDamaged)]_vars

\* A boot has failed on a damaged record of a store that earlier uploads filled.
BootFailedOnDamage ==
    /\ server = "failed" /\ call.op = "boot" /\ ~call.ok
    /\ SomeRecordDamaged
    /\ DOMAIN files # {}

\* C32: when a FreezeDictionary request freezes the dictionary of a running server, the
\* file dictionary_<id>.json under the data root the server was started with holds the
\* frozen dictionary.
FreezeLeavesSnapshot ==
    [][(server = "serving" /\ server' = "serving" /\ ~dict.frozen /\ dict'.frozen)
           => /\ <<data_dir, dict'.id>> \in DOMAIN snapshots'
              /\ snapshots'[<<data_dir, dict'.id>>] = dict']_vars

\* C33: whatever stops and restarts of the server came before, the download of a stored
\* object answers with a Data frame whose bytes hash to the original_hash of its
\* metadata.
DownloadExactAcrossRestart ==
    [][(/\ call'.op = "download" /\ call'.count = call.count + 1
        /\ call'.key \in DOMAIN files /\ call'.key \in DOMAIN metas)
           => /\ out'[call'.sid].type = "Data"
              /\ Sha256(out'[call'.sid].data) = metas[call'.key].original_hash]_vars

(***************************************************************************)
(* The planner called directly: plan_symbols with any input and max_len.   *)
(***************************************************************************)

\* The max_len values plan_symbols is called with (compress passes 32 and 16).
PlanMaxLens == {2, 3, 16, 32}

\* plan_symbols(x, max_len): the counts it used and the list it returned.
PlanCall(x, max_len) ==
    /\ \E symbols_planned \in PlanSymbols(x, max_len) :
           call' = [call EXCEPT !.op = "plan", !.input = x, !.total = max_len,
                                !.hash = PlanFreq(x, max_len), !.output = symbols_planned]
    /\ UNCHANGED <<dict, symbols, usage, files, metas, sess, chunked, out, inbox, snapshots,
                   uploads, tasks>>

NextPlan == \E x \in Inputs, max_len \in PlanMaxLens : PlanCall(x, max_len)

SpecPlan == InitCodec /\ [][NextPlan]_vars

\* The number of positions of x at which s occurs.
Occurrences(s, x) ==
    Cardinality({i \in 0 .. (Len(x) - Len(s)) : Slice(x, i, Len(s)) = s})

\* The contiguous substrings of x of lo to hi bytes.
Substrings(x, lo, hi) ==
    {Slice(x, i, len) : <<len, i>> \in {p \in (lo .. hi) \X (0 .. Len(x)) : p[2] + p[1] <= Len(x)}}

\* C35: for every substring s of the input of 2 to min(max_len, 16) bytes, the count the
\* planner used is the number of positions at which s occurs, and s is among the
\* candidates returned exactly when count * len(s) - 2 * count > 0.
PlannerCountsEveryOccurrence ==
    call.op = "plan" =>
        \A s \in Substrings(call.input, 2, Min(call.total, 16)) :
            LET count == Occurrences(s, call.input)
            IN  /\ s \in DOMAIN call.hash /\ call.hash[s] = count
                /\ (\E k \in DOMAIN call.output : call.output[k].bytes = s)
                       <=> (count * Len(s) - 2 * count > 0)

(***************************************************************************)
(* The Huffman stage called directly: build and encode, the code table     *)
(* written as compress writes it, and decode with the tree rebuilt from it. *)
(***************************************************************************)

\* The token sequences encoded: all short ones over two literals and a symbol token,
\* and runs of one, two and three tokens that fill more than one byte.
HuffTokens == {97, 98, 256}
HuffInputs ==
    SeqsUpTo(HuffTokens, MaxTokens)
    \cup {[i \in 1 .. n |-> 97] : n \in 1 .. MaxRun}
    \cup {[i \in 1 .. n |-> IF i % 3 = 0 THEN 256 ELSE 97] : n \in 1 .. MaxRun}
    \cup {[i \in 1 .. n |-> IF i % 4 = 0 THEN 98 ELSE IF i % 2 = 0 THEN 256 ELSE 97] :
              n \in 1 .. MaxRun}

\* HuffmanTable::build(T), encode(T), the table section of compress, rebuild_tree of
\* decompress on it, and decode.
HuffmanCall(T) ==
    /\ \E table \in HuffmanBuild(T) : \E order \in Orders(DOMAIN table) :
           LET written == U32BE(Cardinality(DOMAIN table))
                          \o Flatten([i \in DOMAIN order |-> TableEntry(order[i], table[order[i]])])
               parsed  == ParseTable(written, 4, FromU32BE(written, 0), EmptyMap)
               decoded == HuffmanDecode(parsed.table, HuffmanEncode(table, T))
           IN  call' = [call EXCEPT !.op = "huffman", !.input = T, !.ok = parsed.ok,
                                    !.payload = HuffmanEncode(table, T),
                                    !.panic = decoded.panic, !.output = decoded.tokens]
    /\ UNCHANGED <<dict, symbols, usage, files, metas, sess, chunked, out, inbox, snapshots,
                   uploads, tasks>>

NextHuffman == \E T \in HuffInputs : HuffmanCall(T)

SpecHuffman == InitCodec /\ [][NextHuffman]_vars

\* C36: for every token sequence T, the empty one and those of one distinct token
\* included, decoding encode(T) with the tree rebuilt from the written code table gives T.
HuffmanRoundTrip ==
    call.op = "huffman" => (call.ok /\ ~call.panic /\ call.output = call.input)

\* A sequence of one distinct token whose bits fill more than one byte came back.
LongRunDecoded ==
    /\ call.op = "huffman"
    /\ OneByteRepeated(call.input) /\ Len(call.input) > 8
    /\ Len(call.payload) = 3
    /\ call.output = call.input

(***************************************************************************)
(* The bytes the planner reads of a large upload, by length: an input of   *)
(* over 1 MiB is too long to enumerate, and which prefix is read depends   *)
(* on its length alone.                                                    *)
(***************************************************************************)

\* The length of the slice compress hands to plan_symbols (the lengths of CompressPlan).
CompressSampleLen(len) ==
    IF len > 1024 * 1024 THEN Min(len \div 10, 64 * 1024) ELSE len

\* The length of the sample plan_symbols counts over (the lengths of PlanSample).
PlanSampleLen(len) ==
    IF len > 1024 * 1024 THEN Min(len \div 20, 256 * 1024) ELSE len

\* The upload sizes: 1 MiB, and sizes above it by 64 KiB less one byte a step.
UploadSizes == {1024 * 1024 + k * (64 * 1024 - 1) : k \in 0 .. MaxSizeSteps}

\* compress of `len` bytes into an unfrozen dictionary, up to the call of plan_symbols:
\* the length of the prefix the symbols are mined from.
SampleCall(len) ==
    /\ ~dict.frozen
    /\ call' = [call EXCEPT !.op = "sample", !.total = len,
                            !.count = PlanSampleLen(CompressSampleLen(len))]
    /\ UNCHANGED <<dict, symbols, usage, files, metas, sess, chunked, out, inbox, snapshots,
                   uploads, tasks>>

NextSample == \E len \in UploadSizes : SampleCall(len)

SpecSample == InitCodec /\ [][NextSample]_vars

\* C37: for an upload of more than 1 MiB into an unfrozen dictionary, the symbols are
\* mined from exactly the first min(len/20, 256 KiB) bytes of the input.
LargeUploadSample ==
    (call.op = "sample" /\ call.total > 1024 * 1024)
        => call.count = Min(call.total \div 20, 256 * 1024)

(***************************************************************************)
(* storage/local.rs by file name: the files put writes and get reads.      *)
(***************************************************************************)

\* ".meta"
MetaSuffix == <<46, 109, 101, 116, 97>>

\* The object keys stored: "k", "q" and "k.meta".
PathKeys == Keys \cup {<<107>> \o MetaSuffix}

\* data_path and meta_path, as file names inside <root>/files.
DataPath(key) == key
MetaPath(key) == key \o MetaSuffix

\* What a file holds: raw bytes, or the JSON of one ObjectMetadata.
RawFile(data) == [raw |-> data, json |-> {}]
JsonFile(meta) == [raw |-> <<>>, json |-> {meta}]

\* The metadata stored with `data` under `key`: the fields handle_upload derives from them.
PathMeta(key, data) == [key |-> key, original_hash |-> Sha256(data), original_size |-> Len(data)]

\* LocalStorage::put: fs::write of the data file, then of the metadata file.
LocalPutFiles(dir, key, data, meta) ==
    MapPut(MapPut(dir, DataPath(key), RawFile(data)), MetaPath(key), JsonFile(meta))

\* LocalStorage::get: None without a data file; an error when the metadata file is
\* missing or is not the JSON of an ObjectMetadata; else the two files' contents.
LocalGet(dir, key) ==
    IF DataPath(key) \notin DOMAIN dir
    THEN [result |-> "None", data |-> {}, metadata |-> {}]
    ELSE IF MetaPath(key) \notin DOMAIN dir \/ dir[MetaPath(key)].json = {}
         THEN [result |-> "Err", data |-> {}, metadata |-> {}]
         ELSE [result |-> "Some", data |-> {dir[DataPath(key)]},
               metadata |-> dir[MetaPath(key)].json]

\* storage.put(key, data, meta) of one upload.
LocalPut(key, data) ==
    /\ call.n < MaxPathPuts
    /\ files_dir' = LocalPutFiles(files_dir, key, data, PathMeta(key, data))
    /\ call' = [call EXCEPT !.op = "put", !.key = key, !.input = data, !.n = @ + 1]
    /\ UNCHANGED <<dict, symbols, usage, files, metas, sess, chunked, out, inbox, snapshots,
                   uploads, pc, local, mutex, lockfiles, server, data_dir>>

NextPaths == \E key \in PathKeys, data \in Inputs : LocalPut(key, data)

SpecPaths == InitCodec /\ [][NextPaths]_vars

\* C38: a put for key k1 changes no file that get(k2) reads for another key k2, so what
\* get(k2) returns is the same before and after.
PutLeavesOtherKeys ==
    [][(call'.op = "put" /\ call'.n = call.n + 1)
           => \A k2 \in PathKeys \ {call'.key} :
                  LocalGet(files_dir', k2) = LocalGet(files_dir, k2)]_vars

(***************************************************************************)
(* Chunked uploads announced with any chunk_count, 0 included, with the    *)
(* ChunkEnd and Close frames.                                              *)
(***************************************************************************)

\* The chunk_count values announced, and the total_size values.
ZeroChunkCounts == {0, 1}
ZeroTotalSizes == {0, 2}

\* Frame::ChunkEnd for `key` on connection s.
ChunkEnd(s, key) ==
    /\ sess[s] = "active"
    /\ call.n < MaxChunkFrames
    /\ OnIgnored(s)
    /\ call' = [call EXCEPT !.op = "end",
                            !.wire = [type |-> "ChunkEnd", sid |-> s, key |-> key,
                                      chunk_index |-> 0, data |-> <<>>],
                            !.n = @ + 1]
    /\ UNCHANGED <<inbox, tasks>>

\* Frame::Close on connection s.
ChunkClose(s) ==
    /\ sess[s] = "active"
    /\ OnClose(s)
    /\ call' = [call EXCEPT !.op = "close", !.sid = s]
    /\ UNCHANGED <<inbox, tasks>>

NextZero ==
    \/ \E s \in Sessions, magic \in Magics, version \in Versions : Handshake(s, magic, version)
    \/ \E s \in Sessions, key \in Keys, total_size \in ZeroTotalSizes,
          chunk_count \in ZeroChunkCounts : ChunkStart(s, key, total_size, chunk_count)
    \/ \E s \in Sessions, key \in Keys, chunk_index \in 0 .. 1, data \in ChunkContents :
           ChunkData(s, key, chunk_index, data)
    \/ \E s \in Sessions, key \in Keys : ChunkEnd(s, key)
    \/ \E s \in Sessions : ChunkClose(s)

SpecZero == Init /\ [][NextZero]_vars

\* Connection s holds a chunked upload of `key` announced with chunk_count = 0.
ZeroCountPending(s, key) ==
    sess[s] = "active" /\ key \in DOMAIN chunked[s] /\ chunked[s][key].chunk_count = 0

\* C39: a chunked upload announced with chunk_count = 0 never completes: a ChunkData or
\* ChunkEnd frame for its key sends no Ack and stores nothing, and its entry stays in the
\* session's table until the session ends or a ChunkStart for the same key replaces it.
ZeroCountNeverCompletes ==
    [][\A s \in Sessions, key \in Keys :
           ZeroCountPending(s, key) =>
               /\ (call'.op \in {"chunk", "stored", "end"} /\ call'.n = call.n + 1
                   /\ call'.wire.sid = s /\ call'.wire.key = key)
                      => /\ out'[s] = out[s]
                         /\ files' = files /\ metas' = metas /\ uploads' = uploads
                         /\ ZeroCountPending(s, key)'
               /\ \/ ZeroCountPending(s, key)'
                  \/ sess'[s] # "active"
                  \/ call'.op = "start" /\ call'.n = call.n + 1
                     /\ call'.sid = s /\ call'.key = key]_vars

\* Two chunks and a ChunkEnd have arrived for an upload announced with chunk_count = 0.
ZeroCountHoldsChunks ==
    /\ call.op = "end"
    /\ ZeroCountPending(call.wire.sid, call.wire.key)
    /\ Cardinality(DOMAIN chunked[call.wire.sid][call.wire.key].received_chunks) = 2

(***************************************************************************)
(* read_frame on ChunkStart frames too short for their layout.             *)
(***************************************************************************)

\* A ChunkStart frame, arrived whole and with the checksum of its payload, whose payload
\* cannot hold the 4-byte key length, the key, the 8-byte total_size and the 4-byte
\* chunk_count.
ShortChunkStart(w) ==
    /\ w.frame_type = 16
    /\ w.header_read = 12 /\ Len(w.payload) >= w.payload_len
    /\ LET payload == SubSeq(w.payload, 1, w.payload_len)
       IN  /\ w.checksum = Crc32(payload)
           /\ IF Len(payload) < 4 THEN TRUE
              ELSE Len(payload) < 4 + FromU32BE(payload, 0) + 8 + 4

\* C40: read_frame returns an error, and never crashes on an out-of-bounds access, for
\* every ChunkStart payload too short to hold the key length, the key, total_size and
\* chunk_count.
ShortChunkStartIsError ==
    (call.op \in {"ok", "err", "panic"} /\ call.wire # NoFrame /\ ShortChunkStart(call.wire))
        => call.op = "err"

====
